---- MODULE Spec2Model ----
(***************************************************************************)
(* Bias detection and scoring engine (backend/bias_engine.py).             *)
(*                                                                         *)
(* Text is a sequence of one-character strings.  Probabilities are held in *)
(* hundredths (0..100), so 0.25 is 25 and the calibration boost 0.15 is 15.*)
(* The overall inclusivity score is held in tenths (0..1000), as the code  *)
(* rounds it to one decimal.                                               *)
(***************************************************************************)
EXTENDS Integers, Sequences, FiniteSets, TLC

\* ------------------------------------------------------------------------
\* Characters and strings
\* ------------------------------------------------------------------------

Min(a, b) ==
  IF a <= b THEN a ELSE b

Max(a, b) ==
  IF a >= b THEN a ELSE b

UpperLetters ==
  <<"A","B","C","D","E","F","G","H","I","J","K","L","M",
    "N","O","P","Q","R","S","T","U","V","W","X","Y","Z">>

LowerLetters ==
  <<"a","b","c","d","e","f","g","h","i","j","k","l","m",
    "n","o","p","q","r","s","t","u","v","w","x","y","z">>

Digits ==
  {"0","1","2","3","4","5","6","7","8","9"}

\* str.split() and str.strip() separators
Whitespace ==
  {" ", "\t", "\n", "\r"}

\* the regex class \w
WordChars ==
  {UpperLetters[i] : i \in 1..26} \cup {LowerLetters[i] : i \in 1..26}
    \cup Digits \cup {"_"}

\* str.lower() on the letters A..Z
LowerOf ==
  [c \in {UpperLetters[i] : i \in 1..26} |->
     LowerLetters[CHOOSE i \in 1..26 : UpperLetters[i] = c]]

\* str.lower() on one character
LowerChar(c) ==
  IF c \in DOMAIN LowerOf THEN LowerOf[c] ELSE c

\* str.lower()
Lower(s) ==
  SubSeq([i \in 1..Len(s) |-> LowerChar(s[i])], 1, Len(s))

\* `needle in haystack`
Contains(haystack, needle) ==
  \E i \in 1..(Len(haystack) - Len(needle) + 1) :
    \A j \in 1..Len(needle) : haystack[i + j - 1] = needle[j]

\* len(s.strip()) == 0
IsBlank(s) ==
  \A i \in 1..Len(s) : s[i] \in Whitespace

\* the positions str.split() starts a token at
TokenStarts(s) ==
  {i \in 1..Len(s) : s[i] \notin Whitespace /\ (i = 1 \/ s[i-1] \in Whitespace)}

Indices(s) ==
  [i \in 1..Len(s) |-> i]

\* ' '.join(s.split()): every token's characters, with one space in front of
\* each token but the first
JoinSplit(s) ==
  LET starts == TokenStarts(s)
      lead   == IF starts = {} THEN 0
                ELSE CHOOSE i \in starts : \A k \in starts : i <= k
      kept   == SelectSeq(Indices(s),
                  LAMBDA i : \/ s[i] \notin Whitespace
                             \/ i + 1 \in starts /\ i > lead)
  IN  [k \in 1..Len(kept) |-> IF s[kept[k]] \in Whitespace THEN " " ELSE s[kept[k]]]

\* \b at the gap before position i
WordBoundary(s, i) ==
  LET before == i - 1 \in 1..Len(s) /\ s[i-1] \in WordChars
      after  == i \in 1..Len(s) /\ s[i] \in WordChars
  IN  before # after

\* re.search(r'\b' + re.escape(phrase) + r'\b', s, re.IGNORECASE)
SearchWord(phrase, s) ==
  \E i \in 1..(Len(s) - Len(phrase) + 1) :
    /\ \A j \in 1..Len(phrase) : LowerChar(s[i + j - 1]) = LowerChar(phrase[j])
    /\ WordBoundary(s, i)
    /\ WordBoundary(s, i + Len(phrase))

\* ------------------------------------------------------------------------
\* The phrase dictionary, in the dict's insertion order
\* ------------------------------------------------------------------------

BIAS_PHRASES ==
  <<
    [phrase |-> <<"r","o","c","k","s","t","a","r">>, category |-> "masculine_coded"],
    [phrase |-> <<"n","i","n","j","a">>, category |-> "masculine_coded"],
    [phrase |-> <<"g","u","r","u">>, category |-> "masculine_coded"],
    [phrase |-> <<"h","u","s","t","l","e">>, category |-> "masculine_coded"],
    [phrase |-> <<"c","r","u","s","h"," ","i","t">>, category |-> "masculine_coded"],
    [phrase |-> <<"a","g","g","r","e","s","s","i","v","e">>, category |-> "masculine_coded"],
    [phrase |-> <<"d","o","m","i","n","a","n","t">>, category |-> "masculine_coded"],
    [phrase |-> <<"f","o","r","c","e","f","u","l">>, category |-> "masculine_coded"],
    [phrase |-> <<"a","s","s","e","r","t","i","v","e"," ","p","e","r","s","o","n","a","l","i","t","y">>, category |-> "masculine_coded"],
    [phrase |-> <<"l","e","a","d","e","r","s","h","i","p"," ","p","r","e","s","e","n","c","e">>, category |-> "masculine_coded"],
    [phrase |-> <<"m","a","l","e"," ","a","p","p","l","i","c","a","n","t","s"," ","p","r","e","f","e","r","r","e","d">>, category |-> "masculine_coded"],
    [phrase |-> <<"m","a","l","e"," ","p","r","e","f","e","r","r","e","d">>, category |-> "masculine_coded"],
    [phrase |-> <<"m","e","n"," ","p","r","e","f","e","r","r","e","d">>, category |-> "masculine_coded"],
    [phrase |-> <<"s","t","r","o","n","g">>, category |-> "masculine_coded"],
    [phrase |-> <<"d","r","i","v","e">>, category |-> "masculine_coded"],
    [phrase |-> <<"l","e","a","d">>, category |-> "masculine_coded"],
    [phrase |-> <<"a","n","a","l","y","s","i","s">>, category |-> "masculine_coded"],
    [phrase |-> <<"i","n","d","i","v","i","d","u","a","l","s">>, category |-> "masculine_coded"],
    [phrase |-> <<"d","e","c","i","s","i","o","n","s">>, category |-> "masculine_coded"],
    [phrase |-> <<"c","o","m","p","e","t","i","t","i","v","e">>, category |-> "masculine_coded"],
    [phrase |-> <<"t","a","c","k","l","e">>, category |-> "masculine_coded"],
    [phrase |-> <<"i","n","d","e","p","e","n","d","e","n","t">>, category |-> "masculine_coded"],
    [phrase |-> <<"n","u","r","t","u","r","i","n","g">>, category |-> "feminine_coded"],
    [phrase |-> <<"e","m","p","a","t","h","e","t","i","c">>, category |-> "feminine_coded"],
    [phrase |-> <<"s","u","p","p","o","r","t","i","v","e">>, category |-> "feminine_coded"],
    [phrase |-> <<"c","a","r","i","n","g">>, category |-> "feminine_coded"],
    [phrase |-> <<"d","i","g","i","t","a","l"," ","n","a","t","i","v","e">>, category |-> "age_biased"],
    [phrase |-> <<"y","o","u","n","g"," ","a","n","d"," ","e","n","e","r","g","e","t","i","c">>, category |-> "age_biased"],
    [phrase |-> <<"y","o","u","n","g"," ","t","e","a","m">>, category |-> "age_biased"],
    [phrase |-> <<"y","o","u","n","g"," ","p","r","o","f","e","s","s","i","o","n","a","l","s">>, category |-> "age_biased"],
    [phrase |-> <<"r","e","c","e","n","t"," ","g","r","a","d","u","a","t","e">>, category |-> "age_biased"],
    [phrase |-> <<"r","e","c","e","n","t"," ","c","o","l","l","e","g","e"," ","g","r","a","d","u","a","t","e">>, category |-> "age_biased"],
    [phrase |-> <<"n","e","w"," ","g","r","a","d","u","a","t","e">>, category |-> "age_biased"],
    [phrase |-> <<"f","r","e","s","h"," ","o","u","t"," ","o","f"," ","c","o","l","l","e","g","e">>, category |-> "age_biased"],
    [phrase |-> <<"e","n","e","r","g","e","t","i","c"," ","t","e","a","m">>, category |-> "age_biased"],
    [phrase |-> <<"u","n","d","e","r"," ","3","0">>, category |-> "age_biased"],
    [phrase |-> <<"u","n","d","e","r"," ","2","5">>, category |-> "age_biased"],
    [phrase |-> <<"m","u","s","t"," ","b","e"," ","e","l","i","g","i","b","l","e"," ","t","o"," ","w","o","r","k"," ","i","n"," ","t","h","e"," ","u",".","s",".">>, category |-> "exclusionary_language"],
    [phrase |-> <<"n","o"," ","w","o","r","k"," ","v","i","s","a"," ","s","p","o","n","s","o","r","s","h","i","p">>, category |-> "exclusionary_language"],
    [phrase |-> <<"n","o"," ","v","i","s","a"," ","s","p","o","n","s","o","r","s","h","i","p">>, category |-> "exclusionary_language"],
    [phrase |-> <<"n","o"," ","s","p","o","n","s","o","r","s","h","i","p">>, category |-> "exclusionary_language"],
    [phrase |-> <<"u","n","r","e","s","t","r","i","c","t","e","d"," ","w","o","r","k"," ","a","u","t","h","o","r","i","z","a","t","i","o","n">>, category |-> "exclusionary_language"],
    [phrase |-> <<"m","u","s","t"," ","a","l","r","e","a","d","y"," ","h","a","v","e"," ","w","o","r","k"," ","a","u","t","h","o","r","i","z","a","t","i","o","n">>, category |-> "exclusionary_language"],
    [phrase |-> <<"a","l","r","e","a","d","y"," ","a","u","t","h","o","r","i","z","e","d"," ","t","o"," ","w","o","r","k">>, category |-> "exclusionary_language"],
    [phrase |-> <<"n","o"," ","o","p","t">>, category |-> "exclusionary_language"],
    [phrase |-> <<"n","o"," ","c","p","t">>, category |-> "exclusionary_language"],
    [phrase |-> <<"n","o","t"," ","c","o","n","s","i","d","e","r","i","n","g"," ","o","p","t">>, category |-> "exclusionary_language"],
    [phrase |-> <<"n","o","t"," ","c","o","n","s","i","d","e","r","i","n","g"," ","c","p","t">>, category |-> "exclusionary_language"],
    [phrase |-> <<"n","o"," ","v","i","s","a"," ","t","r","a","n","s","f","e","r","s">>, category |-> "exclusionary_language"],
    [phrase |-> <<"n","o"," ","t","r","a","n","s","f","e","r"," ","v","i","s","a","s">>, category |-> "exclusionary_language"],
    [phrase |-> <<"n","o","r","t","h"," ","a","m","e","r","i","c","a","n"," ","a","p","p","l","i","c","a","n","t","s"," ","o","n","l","y">>, category |-> "exclusionary_language"],
    [phrase |-> <<"m","u","s","t"," ","b","e"," ","i","n"," ","n","o","r","t","h"," ","a","m","e","r","i","c","a">>, category |-> "exclusionary_language"],
    [phrase |-> <<"e","n","g","l","i","s","h"," ","o","n","l","y">>, category |-> "exclusionary_language"],
    [phrase |-> <<"e","n","g","l","i","s","h","-","o","n","l","y">>, category |-> "exclusionary_language"],
    [phrase |-> <<"n","a","t","i","v","e"," ","e","n","g","l","i","s","h"," ","s","p","e","a","k","e","r">>, category |-> "exclusionary_language"],
    [phrase |-> <<"n","a","t","i","v","e"," ","e","n","g","l","i","s","h"," ","s","p","e","a","k","e","r"," ","o","n","l","y">>, category |-> "exclusionary_language"],
    [phrase |-> <<"n","a","t","i","v","e"," ","s","p","e","a","k","e","r"," ","r","e","q","u","i","r","e","d">>, category |-> "exclusionary_language"],
    [phrase |-> <<"n","a","t","i","v","e"," ","s","p","e","a","k","e","r"," ","o","n","l","y">>, category |-> "exclusionary_language"],
    [phrase |-> <<"s","t","r","o","n","g"," ","n","o","r","t","h"," ","a","m","e","r","i","c","a","n"," ","c","o","m","m","u","n","i","c","a","t","i","o","n">>, category |-> "exclusionary_language"],
    [phrase |-> <<"c","a","n","a","d","i","a","n"," ","c","i","t","i","z","e","n","s"," ","o","n","l","y">>, category |-> "exclusionary_language"],
    [phrase |-> <<"u",".","s","."," ","c","i","t","i","z","e","n"," ","o","n","l","y">>, category |-> "exclusionary_language"],
    [phrase |-> <<"u","s"," ","c","i","t","i","z","e","n"," ","o","n","l","y">>, category |-> "exclusionary_language"],
    [phrase |-> <<"n","o"," ","i","n","t","e","r","n","a","t","i","o","n","a","l"," ","s","t","u","d","e","n","t","s">>, category |-> "exclusionary_language"],
    [phrase |-> <<"n","o"," ","w","o","r","k","-","p","e","r","m","i","t"," ","h","o","l","d","e","r","s">>, category |-> "exclusionary_language"],
    [phrase |-> <<"c","i","t","i","z","e","n","s"," ","o","n","l","y">>, category |-> "exclusionary_language"],
    [phrase |-> <<"l","o","c","a","l"," ","a","p","p","l","i","c","a","n","t","s"," ","o","n","l","y">>, category |-> "exclusionary_language"],
    [phrase |-> <<"n","o"," ","r","e","l","o","c","a","t","i","o","n","s">>, category |-> "exclusionary_language"],
    [phrase |-> <<"m","u","s","t"," ","b","e"," ","l","o","c","a","l">>, category |-> "exclusionary_language"],
    [phrase |-> <<"n","o"," ","r","e","m","o","t","e">>, category |-> "exclusionary_language"],
    [phrase |-> <<"w","o","r","k"," ","h","a","r","d"," ","p","l","a","y"," ","h","a","r","d">>, category |-> "cultural_fit"],
    [phrase |-> <<"w","o","r","k"," ","h","a","r","d",","," ","p","l","a","y"," ","h","a","r","d">>, category |-> "cultural_fit"],
    [phrase |-> <<"c","u","l","t","u","r","a","l"," ","f","i","t">>, category |-> "cultural_fit"],
    [phrase |-> <<"f","i","t"," ","t","h","e"," ","c","u","l","t","u","r","e">>, category |-> "cultural_fit"],
    [phrase |-> <<"f","i","t"," ","o","u","r"," ","c","u","l","t","u","r","e">>, category |-> "cultural_fit"],
    [phrase |-> <<"b","e","e","r"," ","f","r","i","d","a","y","s">>, category |-> "cultural_fit"],
    [phrase |-> <<"a","f","t","e","r","-","w","o","r","k"," ","d","r","i","n","k","s">>, category |-> "cultural_fit"],
    [phrase |-> <<"s","t","a","r","t","u","p"," ","c","u","l","t","u","r","e">>, category |-> "cultural_fit"],
    [phrase |-> <<"f","a","s","t","-","p","a","c","e","d"," ","e","n","v","i","r","o","n","m","e","n","t">>, category |-> "cultural_fit"],
    [phrase |-> <<"l","i","k","e"," ","a"," ","f","a","m","i","l","y">>, category |-> "cultural_fit"],
    [phrase |-> <<"g","o","-","g","e","t","t","e","r">>, category |-> "cultural_fit"],
    [phrase |-> <<"s","e","l","f","-","s","t","a","r","t","e","r">>, category |-> "cultural_fit"],
    [phrase |-> <<"t","e","a","m"," ","p","l","a","y","e","r">>, category |-> "cultural_fit"],
    [phrase |-> <<"m","u","s","t"," ","b","e"," ","a","b","l","e"," ","t","o"," ","l","i","f","t">>, category |-> "disability_biased"],
    [phrase |-> <<"m","u","s","t"," ","b","e"," ","a","b","l","e"," ","t","o"," ","s","t","a","n","d">>, category |-> "disability_biased"],
    [phrase |-> <<"p","h","y","s","i","c","a","l"," ","r","e","q","u","i","r","e","m","e","n","t","s">>, category |-> "disability_biased"],
    [phrase |-> <<"a","b","l","e","-","b","o","d","i","e","d">>, category |-> "disability_biased"],
    [phrase |-> <<"w","i","t","h","o","u","t"," ","a","c","c","o","m","m","o","d","a","t","i","o","n">>, category |-> "disability_biased"],
    [phrase |-> <<"n","o"," ","a","c","c","o","m","m","o","d","a","t","i","o","n">>, category |-> "disability_biased"],
    [phrase |-> <<"m","u","s","t"," ","h","a","v","e"," ","v","a","l","i","d"," ","d","r","i","v","e","r","'","s"," ","l","i","c","e","n","s","e">>, category |-> "disability_biased"],
    [phrase |-> <<"p","e","r","s","o","n","a","l"," ","v","e","h","i","c","l","e"," ","r","e","q","u","i","r","e","d">>, category |-> "disability_biased"],
    [phrase |-> <<"p","r","o","f","e","s","s","i","o","n","a","l"," ","a","p","p","e","a","r","a","n","c","e">>, category |-> "appearance_biased"],
    [phrase |-> <<"c","l","e","a","n","-","c","u","t"," ","a","p","p","e","a","r","a","n","c","e">>, category |-> "appearance_biased"],
    [phrase |-> <<"n","o"," ","v","i","s","i","b","l","e"," ","t","a","t","t","o","o","s">>, category |-> "appearance_biased"],
    [phrase |-> <<"n","o"," ","t","a","t","t","o","o","s">>, category |-> "appearance_biased"],
    [phrase |-> <<"n","o"," ","v","i","s","i","b","l","e"," ","p","i","e","r","c","i","n","g","s">>, category |-> "appearance_biased"],
    [phrase |-> <<"n","o"," ","p","i","e","r","c","i","n","g","s">>, category |-> "appearance_biased"]
  >>

Categories ==
  <<"masculine_coded", "feminine_coded", "age_biased", "exclusionary_language",
    "cultural_fit", "disability_biased", "appearance_biased">>

CategorySet ==
  {Categories[i] : i \in 1..Len(Categories)}

EmptyResults ==
  [c \in CategorySet |-> [count |-> 0, matches |-> <<>>]]

\* the test of one dictionary phrase: single-token phrases by word-boundary
\* regex, the others by substring containment
PhraseFound(phrase, text_normalized) ==
  IF Cardinality(TokenStarts(phrase)) = 1
    THEN SearchWord(phrase, text_normalized)
    ELSE Contains(text_normalized, phrase)

\* what one iteration of the loop over BIAS_PHRASES.items() offers to its
\* category: the phrase once when it is found, nothing otherwise
PhraseHits(entry, text_normalized) ==
  IF PhraseFound(entry.phrase, text_normalized) THEN <<entry.phrase>> ELSE <<>>

\* `if phrase not in matches: matches.append(phrase)` over a run of hits
AppendUnique(hits) ==
  LET kept == SelectSeq(Indices(hits),
                LAMBDA i : \A j \in 1..(i - 1) : hits[j] # hits[i])
  IN  [k \in 1..Len(kept) |-> hits[kept[k]]]

\* the hits of the entries of one category, in dictionary order
RECURSIVE Flatten(_)
Flatten(ss) ==
  IF ss = <<>> THEN <<>> ELSE Head(ss) \o Flatten(Tail(ss))

CategoryHits(category, text_normalized) ==
  LET entries == SelectSeq(BIAS_PHRASES, LAMBDA e : e.category = category)
  IN  Flatten([i \in 1..Len(entries) |-> PhraseHits(entries[i], text_normalized)])

\* the positions at which `phrase` occurs in s
Occurrences(phrase, s) ==
  {i \in 1..(Len(s) - Len(phrase) + 1) :
     \A j \in 1..Len(phrase) : s[i + j - 1] = phrase[j]}

\* a scan that records a phrase once per place it occurs at
ScanPhrasesPerOccurrence(text_normalized) ==
  [c \in CategorySet |->
     LET entries == SelectSeq(BIAS_PHRASES, LAMBDA e : e.category = c)
         hits == Flatten([i \in 1..Len(entries) |->
                   IF PhraseFound(entries[i].phrase, text_normalized)
                     THEN [k \in 1..Max(1, Cardinality(Occurrences(entries[i].phrase,
                                                                  text_normalized))) |->
                             entries[i].phrase]
                     ELSE <<>>])
     IN  [count |-> Len(hits), matches |-> hits]]

\* a scan whose count goes up once per place a phrase occurs at
ScanPhrasesCountingOccurrences(text_normalized) ==
  [c \in CategorySet |->
     LET hits == CategoryHits(c, text_normalized)
         places == UNION {{<<i, o>> : o \in Occurrences(hits[i], text_normalized)} :
                            i \in 1..Len(hits)}
     IN  [count |-> Cardinality(places), matches |-> AppendUnique(hits)]]

\* the loop over the dictionary: count goes up on every hit, matches takes a
\* phrase only if it is not already there
ScanPhrases(text_normalized) ==
  [c \in CategorySet |->
     LET hits == CategoryHits(c, text_normalized)
     IN  [count |-> Len(hits), matches |-> AppendUnique(hits)]]

\* a detection whose early return for blank text leaves a category out
detect_bias_keywords_partial(text) ==
  IF text = <<>> \/ IsBlank(text)
    THEN [c \in CategorySet \ {"appearance_biased"} |->
            [count |-> 0, matches |-> <<>>]]
  ELSE ScanPhrases(JoinSplit(Lower(text)))

detect_bias_keywords(text) ==
  IF text = <<>> \/ IsBlank(text) THEN EmptyResults
  ELSE ScanPhrases(JoinSplit(Lower(text)))

\* ------------------------------------------------------------------------
\* The international-bias heuristic (weights in hundredths)
\* ------------------------------------------------------------------------

INTERNATIONAL_HEURISTICS ==
  <<
    [trigger |-> <<"u","n","r","e","s","t","r","i","c","t","e","d"," ","w","o","r","k"," ","a","u","t","h","o","r","i","z","a","t","i","o","n">>, weight |-> 18],
    [trigger |-> <<"a","l","r","e","a","d","y"," ","a","u","t","h","o","r","i","z","e","d"," ","t","o"," ","w","o","r","k">>, weight |-> 15],
    [trigger |-> <<"m","u","s","t"," ","a","l","r","e","a","d","y"," ","h","a","v","e"," ","w","o","r","k"," ","a","u","t","h","o","r","i","z","a","t","i","o","n">>, weight |-> 15],
    [trigger |-> <<"n","o"," ","s","p","o","n","s","o","r","s","h","i","p">>, weight |-> 12],
    [trigger |-> <<"n","o"," ","v","i","s","a">>, weight |-> 12],
    [trigger |-> <<"v","i","s","a"," ","t","r","a","n","s","f","e","r","s">>, weight |-> 12],
    [trigger |-> <<"o","p","t">>, weight |-> 10],
    [trigger |-> <<"c","p","t">>, weight |-> 10],
    [trigger |-> <<"n","o","r","t","h"," ","a","m","e","r","i","c","a","n">>, weight |-> 12],
    [trigger |-> <<"e","n","g","l","i","s","h"," ","o","n","l","y">>, weight |-> 10],
    [trigger |-> <<"e","n","g","l","i","s","h","-","o","n","l","y">>, weight |-> 10],
    [trigger |-> <<"u",".","s","."," ","w","o","r","k"," ","a","u","t","h","o","r","i","z","a","t","i","o","n">>, weight |-> 12],
    [trigger |-> <<"u","s"," ","w","o","r","k"," ","a","u","t","h","o","r","i","z","a","t","i","o","n">>, weight |-> 12],
    [trigger |-> <<"m","u","s","t"," ","b","e"," ","i","n"," ","n","o","r","t","h"," ","a","m","e","r","i","c","a">>, weight |-> 12],
    [trigger |-> <<"i","n","t","e","r","n","a","t","i","o","n","a","l"," ","c","a","n","d","i","d","a","t","e","s">>, weight |-> 8],
    [trigger |-> <<"i","n","t","e","r","n","a","t","i","o","n","a","l"," ","s","t","u","d","e","n","t","s">>, weight |-> 8],
    [trigger |-> <<"a","l","r","e","a","d","y"," ","i","n"," ","t","h","e"," ","u","s">>, weight |-> 10],
    [trigger |-> <<"a","l","r","e","a","d","y"," ","i","n"," ","t","h","e"," ","u",".","s",".">>, weight |-> 10]
  >>

RECURSIVE SumSeq(_)
SumSeq(s) ==
  IF s = <<>> THEN 0 ELSE Head(s) + SumSeq(Tail(s))

\* the sum of the weights of the triggers found in text_lower
TriggerSum(table, text_lower) ==
  SumSeq([i \in 1..Len(table) |->
            IF Contains(text_lower, table[i].trigger) THEN table[i].weight ELSE 0])

detect_international_bias_signal(text) ==
  Min(35, TriggerSum(INTERNATIONAL_HEURISTICS, Lower(text)))

calibrate_confidence(score) ==
  Max(0, Min(100, score + 15))

\* ------------------------------------------------------------------------
\* Classification
\* ------------------------------------------------------------------------

candidate_labels ==
  <<"age-bias", "gender-bias", "culture-fit-bias", "intl-bias",
    "exclusionary-language", "disability-bias", "neutral">>

max_length_chars == 1200

\* list.sort(key=score, reverse=True): stable, so equal scores keep their order
RECURSIVE InsertDesc(_, _)
InsertDesc(sorted, p) ==
  IF sorted = <<>> THEN <<p>>
  ELSE IF Head(sorted).score >= p.score
    THEN <<Head(sorted)>> \o InsertDesc(Tail(sorted), p)
    ELSE <<p>> \o sorted

RECURSIVE SortDesc(_)
SortDesc(pairs) ==
  IF pairs = <<>> THEN <<>>
  ELSE InsertDesc(SortDesc(SubSeq(pairs, 1, Len(pairs) - 1)), pairs[Len(pairs)])

\* the early return of analyze_with_classifier on empty or blank text
EmptyTextClassification ==
  [labels |-> <<"neutral">>, scores |-> <<100>>, calibrated_scores |-> <<>>,
   error |-> "None", fallback |-> FALSE, provider |-> "None",
   sentence_insights |-> <<>>]

\* ------------------------------------------------------------------------
\* Sentence insights
\* ------------------------------------------------------------------------

\* the characters the sentence pattern [^.!?\n\r]+ stops at
Terminators ==
  {".", "!", "?", "\n", "\r"}

\* the optional closing [.!?] of the sentence pattern
SentenceEnders ==
  {".", "!", "?"}

\* str.strip()
Strip(s) ==
  LET keep == {i \in 1..Len(s) : s[i] \notin Whitespace}
  IN  IF keep = {} THEN <<>>
      ELSE SubSeq(s, CHOOSE i \in keep : \A k \in keep : i <= k,
                     CHOOSE i \in keep : \A k \in keep : i >= k)

\* a splitter that measures the span from the stripped sentence
SplitWithStrippedSpans(text) ==
  LET starts == SelectSeq(Indices(text),
                  LAMBDA i : /\ text[i] \notin Terminators
                             /\ (i = 1 \/ text[i - 1] \in Terminators))
      RunEnd(i) == CHOOSE j \in i..Len(text) :
                     /\ \A k \in i..j : text[k] \notin Terminators
                     /\ (j = Len(text) \/ text[j + 1] \in Terminators)
      MatchEnd(i) == IF RunEnd(i) < Len(text) /\ text[RunEnd(i) + 1] \in SentenceEnders
                       THEN RunEnd(i) + 1 ELSE RunEnd(i)
      found == [k \in 1..Len(starts) |->
                  [sentence |-> Strip(SubSeq(text, starts[k], MatchEnd(starts[k]))),
                   start |-> starts[k] - 1,
                   end |-> starts[k] - 1
                             + Len(Strip(SubSeq(text, starts[k], MatchEnd(starts[k]))))]]
  IN  SelectSeq(found, LAMBDA m : m.sentence # <<>>)

\* the matches of ([^.!?\n\r]+[.!?]?), stripped, with the 0-based span of
\* the unstripped match; matches that strip to nothing are left out
_split_sentences_with_spans(text) ==
  LET starts == SelectSeq(Indices(text),
                  LAMBDA i : /\ text[i] \notin Terminators
                             /\ (i = 1 \/ text[i - 1] \in Terminators))
      RunEnd(i) == CHOOSE j \in i..Len(text) :
                     /\ \A k \in i..j : text[k] \notin Terminators
                     /\ (j = Len(text) \/ text[j + 1] \in Terminators)
      MatchEnd(i) == IF RunEnd(i) < Len(text) /\ text[RunEnd(i) + 1] \in SentenceEnders
                       THEN RunEnd(i) + 1 ELSE RunEnd(i)
      found == [k \in 1..Len(starts) |->
                  [sentence |-> Strip(SubSeq(text, starts[k], MatchEnd(starts[k]))),
                   start |-> starts[k] - 1,
                   end |-> MatchEnd(starts[k])]]
  IN  SelectSeq(found, LAMBDA m : m.sentence # <<>>)

max_sentences == 5

min_chars == 25

threshold == 40

\* the sentences _extract_biased_sentences classifies, in order: those of at
\* least min_chars characters, each with its
\* detect_international_bias_signal(sentence)
SentenceCandidates(text) ==
  LET long == SelectSeq(_split_sentences_with_spans(text),
                        LAMBDA m : Len(m.sentence) >= min_chars)
  IN  [k \in 1..Len(long) |->
         [sentence |-> long[k].sentence, start |-> long[k].start,
          end |-> long[k].end,
          signal |-> detect_international_bias_signal(long[k].sentence)]]

\* a loop iteration that keeps a non-neutral top label whatever the signal
SentenceEntryNoOverride(candidate, probs) ==
  LET intl_idx == CHOOSE i \in 1..Len(candidate_labels) :
                    candidate_labels[i] = "intl-bias"
      paired == SortDesc([i \in 1..Len(candidate_labels) |->
                  [label |-> candidate_labels[i],
                   score |-> IF i = intl_idx /\ candidate.signal # 0
                               THEN Min(100, probs[i] + candidate.signal)
                             ELSE probs[i]]])
      top == paired[1]
      entry(label, score) ==
        [sentence |-> candidate.sentence, label |-> label, score |-> score,
         calibrated_score |-> calibrate_confidence(score),
         confidence_level |-> IF score >= threshold THEN "high" ELSE "low",
         start |-> candidate.start, end |-> candidate.end]
  IN  IF top.label = "neutral"
        THEN IF candidate.signal > 0
               THEN <<entry("intl-bias", candidate.signal)>>
               ELSE <<>>
      ELSE <<entry(top.label, top.score)>>

\* one iteration of the loop of _extract_biased_sentences once the provider
\* has answered with `probs`: the entry it makes, or nothing on `continue`
SentenceEntry(candidate, probs) ==
  LET intl_idx == CHOOSE i \in 1..Len(candidate_labels) :
                    candidate_labels[i] = "intl-bias"
      paired == SortDesc([i \in 1..Len(candidate_labels) |->
                  [label |-> candidate_labels[i],
                   score |-> IF i = intl_idx /\ candidate.signal # 0
                               THEN Min(100, probs[i] + candidate.signal)
                             ELSE probs[i]]])
      top == paired[1]
      entry(label, score) ==
        [sentence |-> candidate.sentence, label |-> label, score |-> score,
         calibrated_score |-> calibrate_confidence(score),
         confidence_level |-> IF score >= threshold THEN "high" ELSE "low",
         start |-> candidate.start, end |-> candidate.end]
  IN  IF top.label = "neutral"
        THEN IF candidate.signal > 0
               THEN <<entry("intl-bias", candidate.signal)>>
               ELSE <<>>
      ELSE IF top.label # "intl-bias" /\ candidate.signal >= 5
        THEN <<entry("intl-bias", Max(top.score, candidate.signal))>>
      ELSE <<entry(top.label, top.score)>>

\* an extraction that neither stops after max_sentences high-confidence
\* entries nor cuts the list
ExtractWithoutLimit(candidates, probs) ==
  LET offered == SubSeq([k \in 1..Len(candidates) |->
                           SentenceEntry(candidates[k], probs)],
                        1, Len(candidates))
      IsHigh(k) == offered[k] # <<>> /\ offered[k][1].score >= threshold
      high_confidence == Flatten([k \in 1..Len(offered) |->
                           IF IsHigh(k) THEN offered[k] ELSE <<>>])
      low_confidence == Flatten([k \in 1..Len(offered) |->
                          IF IsHigh(k) THEN <<>> ELSE offered[k]])
  IN  high_confidence \o low_confidence

\* _extract_biased_sentences over the candidates: the loop stops after its
\* max_sentences-th high-confidence entry; the high-confidence entries come
\* first and the list is cut to max_sentences
_extract_biased_sentences(candidates, probs) ==
  LET offered == SubSeq([k \in 1..Len(candidates) |->
                           SentenceEntry(candidates[k], probs)],
                        1, Len(candidates))
      IsHigh(k) == offered[k] # <<>> /\ offered[k][1].score >= threshold
      reached == SelectSeq(Indices(candidates),
                   LAMBDA k : Cardinality({j \in 1..(k - 1) : IsHigh(j)})
                                < max_sentences)
      high_confidence == Flatten([k \in 1..Len(reached) |->
                           IF IsHigh(reached[k]) THEN offered[reached[k]] ELSE <<>>])
      low_confidence == Flatten([k \in 1..Len(reached) |->
                          IF IsHigh(reached[k]) THEN <<>> ELSE offered[reached[k]]])
      combined == high_confidence \o low_confidence
  IN  SubSeq(combined, 1, Min(max_sentences, Len(combined)))

\* text[:max_length_chars] if len(text) > max_length_chars else text
TextForAnalysis(text) ==
  IF Len(text) > max_length_chars THEN SubSeq(text, 1, max_length_chars)
  ELSE text

\* analyze_with_classifier once the provider has answered with `probs`, one
\* probability per candidate label; `signal` is
\* detect_international_bias_signal(text_for_analysis) and `candidates` the
\* sentences of text_for_analysis that are classified one by one
NliClassification(probs, signal, candidates) ==
  LET intl_idx == CHOOSE i \in 1..Len(candidate_labels) :
                    candidate_labels[i] = "intl-bias"
      paired == SortDesc([i \in 1..Len(candidate_labels) |->
                  [label |-> candidate_labels[i],
                   score |-> IF i = intl_idx THEN Min(100, probs[i] + signal)
                             ELSE probs[i]]])
  IN  [labels |-> [i \in 1..Len(paired) |-> paired[i].label],
       scores |-> [i \in 1..Len(paired) |-> paired[i].score],
       calibrated_scores |->
         [i \in 1..Len(paired) |-> calibrate_confidence(paired[i].score)],
       error |-> "None", fallback |-> FALSE, provider |-> "hf",
       sentence_insights |-> _extract_biased_sentences(candidates, probs)]

\* the labels inferred from keyword counts: each is inserted at the front
InferredPairs(keyword_results) ==
  LET base == <<[label |-> "neutral", score |-> 50]>>
      excl == IF keyword_results["exclusionary_language"].count > 0
                THEN <<[label |-> "exclusionary-language", score |-> 80]>> \o base
                ELSE base
      gend == IF \/ keyword_results["masculine_coded"].count > 0
                 \/ keyword_results["feminine_coded"].count > 0
                THEN <<[label |-> "gender-bias", score |-> 70]>> \o excl
                ELSE excl
      age  == IF keyword_results["age_biased"].count > 0
                THEN <<[label |-> "age-bias", score |-> 70]>> \o gend
                ELSE gend
  IN  SubSeq(age, 1, Min(6, Len(age)))

\* the except branch of analyze_with_classifier; `keyword_results` is its own
\* detect_bias_keywords(text)
FallbackClassification(keyword_results) ==
  LET inferred == InferredPairs(keyword_results)
  IN  [labels |-> [i \in 1..Len(inferred) |-> inferred[i].label],
       scores |-> [i \in 1..Len(inferred) |-> inferred[i].score],
       calibrated_scores |->
         [i \in 1..Len(inferred) |-> calibrate_confidence(inferred[i].score)],
       error |-> "str(e)", fallback |-> TRUE, provider |-> "keyword_fallback",
       sentence_insights |-> <<>>]

\* a keyword-inferred classification that leaves the fallback marker out
KeywordClassificationUnmarked(keyword_results) ==
  LET inferred == InferredPairs(keyword_results)
  IN  [labels |-> [i \in 1..Len(inferred) |-> inferred[i].label],
       scores |-> [i \in 1..Len(inferred) |-> inferred[i].score],
       calibrated_scores |-> <<>>,
       error |-> "None", fallback |-> FALSE, provider |-> "None",
       sentence_insights |-> <<>>]

\* the use_nlp=False branch of analyze_full
KeywordClassification(keyword_results) ==
  LET inferred == InferredPairs(keyword_results)
  IN  [labels |-> [i \in 1..Len(inferred) |-> inferred[i].label],
       scores |-> [i \in 1..Len(inferred) |-> inferred[i].score],
       calibrated_scores |-> <<>>,
       error |-> "None", fallback |-> TRUE, provider |-> "None",
       sentence_insights |-> <<>>]

\* ------------------------------------------------------------------------
\* Scores
\* ------------------------------------------------------------------------

\* calibrated_scores[0] if calibrated_scores else scores[0]
TopScore(classifier_results) ==
  IF classifier_results.calibrated_scores # <<>>
    THEN classifier_results.calibrated_scores[1]
    ELSE classifier_results.scores[1]

HasClassification(classifier_results) ==
  classifier_results.scores # <<>> /\ classifier_results.labels # <<>>

keyword_weights ==
  [exclusionary_language |-> 15, masculine_coded |-> 10, feminine_coded |-> 8,
   age_biased |-> 12, cultural_fit |-> 6, disability_biased |-> 14,
   appearance_biased |-> 12]

label_weights ==
  [l \in {"exclusionary-language", "disability-bias", "intl-bias", "age-bias",
          "gender-bias", "culture-fit-bias"} |->
     CASE l = "exclusionary-language" -> 30
       [] l = "disability-bias" -> 30
       [] l = "intl-bias" -> 32
       [] l = "age-bias" -> 24
       [] l = "gender-bias" -> 24
       [] l = "culture-fit-bias" -> 18]

_keyword_contribution(keyword_results, key, weight, cap) ==
  Min(keyword_results[key].count * weight, cap)

\* classifier points that do not look at which label is on top
ClassifierPointsAnyTop(classifier_results) ==
  IF ~HasClassification(classifier_results) THEN 0
  ELSE LET top_label   == classifier_results.labels[1]
           top_score   == TopScore(classifier_results)
           base_weight == IF top_label \in DOMAIN label_weights
                            THEN label_weights[top_label] ELSE 12
       IN  IF top_score >= 25
             THEN (top_score * base_weight) \div 100
             ELSE 0

\* int(top_score * base_weight) when the top label is not neutral and its
\* confidence reaches 0.25
ClassifierPoints(classifier_results) ==
  IF ~HasClassification(classifier_results) THEN 0
  ELSE LET top_label   == classifier_results.labels[1]
           top_score   == TopScore(classifier_results)
           base_weight == IF top_label \in DOMAIN label_weights
                            THEN label_weights[top_label] ELSE 12
       IN  IF top_label # "neutral" /\ top_score >= 25
             THEN (top_score * base_weight) \div 100
             ELSE 0

\* a bias score without the cap of 30 per category
BiasScoreUncapped(keyword_results, classifier_results) ==
  LET keyword_points ==
        SumSeq([i \in 1..Len(Categories) |->
                  keyword_results[Categories[i]].count
                    * keyword_weights[Categories[i]]])
  IN  Min(keyword_points + ClassifierPoints(classifier_results), 100)

calculate_bias_score(keyword_results, classifier_results) ==
  LET keyword_points ==
        SumSeq([i \in 1..Len(Categories) |->
                  Min(keyword_results[Categories[i]].count
                        * keyword_weights[Categories[i]], 30)])
  IN  Min(keyword_points + ClassifierPoints(classifier_results), 100)

\* sum(1 for match in matches if <one of needles> in match.lower())
CountMatches(matches, needles) ==
  Cardinality({i \in 1..Len(matches) :
                 \E n \in needles : Contains(Lower(matches[i]), n)})

AnyMatch(matches, needles) ==
  CountMatches(matches, needles) > 0

count_visa_issues(keyword_results) ==
  CountMatches(keyword_results["exclusionary_language"].matches,
               {<<"v","i","s","a">>, <<"s","p","o","n","s","o","r","s","h","i","p">>,
                <<"e","l","i","g","i","b","l","e"," ","t","o"," ","w","o","r","k">>})

count_language_bias(keyword_results) ==
  CountMatches(keyword_results["exclusionary_language"].matches,
               {<<"n","a","t","i","v","e">>, <<"e","n","g","l","i","s","h">>})

SourceHeuristics ==
  <<
    [trigger |-> <<"u","n","r","e","s","t","r","i","c","t","e","d"," ","w","o","r","k"," ","a","u","t","h","o","r","i","z","a","t","i","o","n">>, weight |-> 20],
    [trigger |-> <<"a","l","r","e","a","d","y"," ","a","u","t","h","o","r","i","z","e","d"," ","t","o"," ","w","o","r","k">>, weight |-> 15],
    [trigger |-> <<"m","u","s","t"," ","b","e"," ","i","n"," ","n","o","r","t","h"," ","a","m","e","r","i","c","a">>, weight |-> 15],
    [trigger |-> <<"n","o","r","t","h"," ","a","m","e","r","i","c","a","n"," ","a","p","p","l","i","c","a","n","t","s"," ","o","n","l","y">>, weight |-> 20],
    [trigger |-> <<"o","p","t">>, weight |-> 10],
    [trigger |-> <<"c","p","t">>, weight |-> 10],
    [trigger |-> <<"e","n","g","l","i","s","h"," ","o","n","l","y">>, weight |-> 10],
    [trigger |-> <<"e","n","g","l","i","s","h","-","o","n","l","y">>, weight |-> 10],
    [trigger |-> <<"a","l","r","e","a","d","y"," ","i","n"," ","t","h","e"," ","u","s">>, weight |-> 12],
    [trigger |-> <<"a","l","r","e","a","d","y"," ","i","n"," ","t","h","e"," ","u",".","s",".">>, weight |-> 12]
  >>

\* sum(1 for match in matches if "opt" in match.lower() or "cpt" in match.lower())
count_opt_cpt(keyword_results) ==
  CountMatches(keyword_results["exclusionary_language"].matches,
               {<<"o","p","t">>, <<"c","p","t">>})

\* an international score that weighs an OPT/CPT match below a language match
InternationalScoreLightOpt(keyword_results, source_text) ==
  LET matches        == keyword_results["exclusionary_language"].matches
      visa_count     == count_visa_issues(keyword_results)
      language_count == count_language_bias(keyword_results)
      opt_cpt_count  == CountMatches(matches, {<<"o","p","t">>, <<"c","p","t">>})
  IN  Min(visa_count * 30 + language_count * 20 + opt_cpt_count * 15
            + keyword_results["cultural_fit"].count * 12
            + keyword_results["age_biased"].count * 10
            + (IF source_text # <<>>
                 THEN TriggerSum(SourceHeuristics, Lower(source_text))
                 ELSE 0),
          100)

\* the international score without `min(score, 100)`
InternationalScoreUnclamped(keyword_results, source_text) ==
  LET matches        == keyword_results["exclusionary_language"].matches
      visa_count     == count_visa_issues(keyword_results)
      language_count == count_language_bias(keyword_results)
      opt_cpt_count  == CountMatches(matches, {<<"o","p","t">>, <<"c","p","t">>})
  IN  visa_count * 30 + language_count * 20 + opt_cpt_count * 25
        + keyword_results["cultural_fit"].count * 12
        + keyword_results["age_biased"].count * 10
        + (IF source_text # <<>>
             THEN TriggerSum(SourceHeuristics, Lower(source_text))
             ELSE 0)

calculate_international_bias_score(keyword_results, source_text) ==
  LET matches        == keyword_results["exclusionary_language"].matches
      visa_count     == CountMatches(matches, {<<"v","i","s","a">>, <<"s","p","o","n","s","o","r","s","h","i","p">>,
                                               <<"e","l","i","g","i","b","l","e"," ","t","o"," ","w","o","r","k">>})
      language_count == CountMatches(matches, {<<"n","a","t","i","v","e">>, <<"e","n","g","l","i","s","h">>})
      opt_cpt_count  == CountMatches(matches, {<<"o","p","t">>, <<"c","p","t">>})
      score == visa_count * 30 + language_count * 20 + opt_cpt_count * 25
                 + keyword_results["cultural_fit"].count * 12
                 + keyword_results["age_biased"].count * 10
                 + (IF source_text # <<>>
                      THEN TriggerSum(SourceHeuristics, Lower(source_text))
                      ELSE 0)
  IN  Min(score, 100)

\* the six sub-scores of calculate_inclusivity_score
InclusivityBreakdown(keyword_results) ==
  LET kr == keyword_results
      gender_multiplier ==
        IF AnyMatch(kr["masculine_coded"].matches, {<<"m","a","l","e">>, <<"m","e","n">>}) THEN 15 ELSE 10
      age_multiplier ==
        IF AnyMatch(kr["age_biased"].matches, {<<"u","n","d","e","r">>}) THEN 20 ELSE 15
      disability_multiplier ==
        IF AnyMatch(kr["disability_biased"].matches,
                    {<<"w","i","t","h","o","u","t"," ","a","c","c","o","m","m","o","d","a","t","i","o","n">>, <<"n","o"," ","a","c","c","o","m","m","o","d","a","t","i","o","n">>}) THEN 25 ELSE 20
      exclusionary_multiplier ==
        IF AnyMatch(kr["exclusionary_language"].matches, {<<"o","n","l","y">>, <<"n","o">>}) THEN 20 ELSE 15
      appearance_multiplier ==
        IF AnyMatch(kr["appearance_biased"].matches, {<<"n","o">>}) THEN 18 ELSE 12
  IN  [gender_bias |->
         Min((kr["masculine_coded"].count + kr["feminine_coded"].count)
               * gender_multiplier, 100),
       age_bias |-> Min(kr["age_biased"].count * age_multiplier, 100),
       disability_bias |->
         Min(kr["disability_biased"].count * disability_multiplier, 100),
       cultural_fit_bias |-> Min(kr["cultural_fit"].count * 12, 100),
       exclusionary_language |->
         Min(kr["exclusionary_language"].count * exclusionary_multiplier, 100),
       appearance_bias |->
         Min(kr["appearance_biased"].count * appearance_multiplier, 100)]

\* max(0, 100 - total_bias / 6) in thirtieths of a point
KeywordInclusivity30(keyword_results) ==
  LET b == InclusivityBreakdown(keyword_results)
      total_bias == b.gender_bias + b.age_bias + b.disability_bias
                      + b.cultural_fit_bias + b.exclusionary_language
                      + b.appearance_bias
  IN  Max(0, 3000 - 5 * total_bias)

\* a deduction of top_score * 30.0
ClassifierDeductionSteep(classifier_results) ==
  IF ~HasClassification(classifier_results) THEN 0
  ELSE IF /\ classifier_results.labels[1] # "neutral"
          /\ TopScore(classifier_results) >= 25
    THEN TopScore(classifier_results) * 9
    ELSE 0

\* the classifier's deduction top_score * 20.0, in thirtieths of a point
ClassifierDeduction30(classifier_results) ==
  IF ~HasClassification(classifier_results) THEN 0
  ELSE IF /\ classifier_results.labels[1] # "neutral"
          /\ TopScore(classifier_results) >= 25
    THEN TopScore(classifier_results) * 6
    ELSE 0

OverallInclusivity30(keyword_results, classifier_results) ==
  LET keyword_only == KeywordInclusivity30(keyword_results)
      deduction    == ClassifierDeduction30(classifier_results)
  IN  IF deduction = 0 THEN keyword_only ELSE Max(0, keyword_only - deduction)

get_inclusivity_interpretation(score30) ==
  IF score30 >= 2400 THEN "Highly Inclusive"
  ELSE IF score30 >= 1800 THEN "Moderately Inclusive"
  ELSE IF score30 >= 1200 THEN "Needs Improvement"
  ELSE "Low Inclusivity"

\* round(x, 1) of x = score30 / 30, in tenths; a third is never a tie
RoundToTenths(score30) ==
  (2 * score30 + 3) \div 6

calculate_inclusivity_score(keyword_results, classifier_results) ==
  LET overall == OverallInclusivity30(keyword_results, classifier_results)
  IN  [overall_inclusivity_score |-> RoundToTenths(overall),
       breakdown |-> InclusivityBreakdown(keyword_results),
       interpretation |-> get_inclusivity_interpretation(overall)]

\* ------------------------------------------------------------------------
\* Percentage breakdown (contributions in hundredths of a point)
\* ------------------------------------------------------------------------

BreakdownKeys ==
  <<"gender_bias", "age_bias", "disability_bias", "cultural_fit_bias",
    "exclusionary_language", "appearance_bias", "international_bias">>

BreakdownKeySet ==
  {BreakdownKeys[i] : i \in 1..Len(BreakdownKeys)}

label_category_map ==
  [l \in {"gender-bias", "age-bias", "disability-bias", "culture-fit-bias",
          "exclusionary-language", "intl-bias"} |->
     CASE l = "gender-bias" -> "gender_bias"
       [] l = "age-bias" -> "age_bias"
       [] l = "disability-bias" -> "disability_bias"
       [] l = "culture-fit-bias" -> "cultural_fit_bias"
       [] l = "exclusionary-language" -> "exclusionary_language"
       [] l = "intl-bias" -> "international_bias"]

smoothing == 35

\* the keyword part and intl_score * 0.6
KeywordContributions(keyword_results, intl_score) ==
  LET kc(key, weight) == 100 * _keyword_contribution(keyword_results, key, weight, 30)
  IN  [k \in BreakdownKeySet |->
         CASE k = "gender_bias" -> kc("masculine_coded", 10) + kc("feminine_coded", 8)
           [] k = "age_bias" -> kc("age_biased", 12)
           [] k = "disability_bias" -> kc("disability_biased", 14)
           [] k = "cultural_fit_bias" -> kc("cultural_fit", 6)
           [] k = "exclusionary_language" -> kc("exclusionary_language", 15)
           [] k = "appearance_bias" -> kc("appearance_biased", 12)
           [] k = "international_bias" -> Max(intl_score * 60, 0)]

\* float(score) * 20.0 for every label that is not neutral, scores at least
\* 0.1 and maps to a category
ClassifierContributions(classifier_results) ==
  LET signal == IF classifier_results.calibrated_scores # <<>>
                  THEN classifier_results.calibrated_scores
                  ELSE classifier_results.scores
      labels == classifier_results.labels
      n      == Min(Len(labels), Len(signal))
  IN  [k \in BreakdownKeySet |->
         IF ~HasClassification(classifier_results) THEN 0
         ELSE SumSeq([i \in 1..n |->
                IF /\ labels[i] # "neutral"
                   /\ signal[i] >= 10
                   /\ labels[i] \in DOMAIN label_category_map
                   /\ label_category_map[labels[i]] = k
                  THEN signal[i] * 20 ELSE 0])]

\* int(round(n / d)) for n >= 0, d > 0: ties go to the even neighbour
RoundHalfEven(n, d) ==
  LET q == n \div d
      r == n % d
  IN  IF 2 * r < d THEN q
      ELSE IF 2 * r > d THEN q + 1
      ELSE IF q % 2 = 0 THEN q ELSE q + 1

\* the rounding without the floor of 1
RoundedPercentagesNoFloor(keyword_results, classifier_results, intl_score) ==
  LET kw == KeywordContributions(keyword_results, intl_score)
      cl == ClassifierContributions(classifier_results)
      adjusted == [k \in BreakdownKeySet |-> kw[k] + cl[k] + smoothing]
      total == SumSeq([i \in 1..Len(BreakdownKeys) |-> adjusted[BreakdownKeys[i]]])
  IN  [k \in BreakdownKeySet |-> RoundHalfEven(adjusted[k] * 100, total)]

\* rounded: max(1, int(round(percentage))) per category
RoundedPercentages(keyword_results, classifier_results, intl_score) ==
  LET kw == KeywordContributions(keyword_results, intl_score)
      cl == ClassifierContributions(classifier_results)
      adjusted == [k \in BreakdownKeySet |-> kw[k] + cl[k] + smoothing]
      total == SumSeq([i \in 1..Len(BreakdownKeys) |-> adjusted[BreakdownKeys[i]]])
  IN  [k \in BreakdownKeySet |-> Max(1, RoundHalfEven(adjusted[k] * 100, total))]

\* the state of calculate_bias_breakdown on entry to its while loop
StartReconcile(rounded) ==
  LET total_sum == SumSeq([i \in 1..Len(BreakdownKeys) |-> rounded[BreakdownKeys[i]]])
      sorted == SortDesc([i \in 1..Len(BreakdownKeys) |->
                           [label |-> BreakdownKeys[i],
                            score |-> rounded[BreakdownKeys[i]]]])
  IN  [rounded |-> rounded,
       diff |-> total_sum - 100,
       keys_sorted |-> [i \in 1..Len(sorted) |-> sorted[i].label],
       idx |-> 0,
       guard |-> 0]

guard_limit == 500

\* a loop condition whose guard gives up after two iterations
LoopRunsBriefly(loop) ==
  loop.diff # 0 /\ loop.guard < 2

LoopRuns(loop) ==
  loop.diff # 0 /\ loop.guard < guard_limit

\* one iteration of the while loop
ReconcileIteration(loop) ==
  LET key == loop.keys_sorted[(loop.idx % Len(loop.keys_sorted)) + 1]
      moved ==
        IF loop.diff > 0 /\ loop.rounded[key] > 1
          THEN [loop EXCEPT !.rounded[key] = @ - 1, !.diff = @ - 1]
        ELSE IF loop.diff < 0
          THEN [loop EXCEPT !.rounded[key] = @ + 1, !.diff = @ + 1]
        ELSE loop
  IN  [moved EXCEPT !.idx = @ + 1, !.guard = @ + 1]

\* ------------------------------------------------------------------------
\* Red flags
\* ------------------------------------------------------------------------

MatchHas(match, needles) ==
  \E n \in needles : Contains(Lower(match), n)

Flag(match, severity, category, explanation) ==
  [text |-> match, severity |-> severity, category |-> category,
   explanation |-> [template |-> explanation, phrase |-> match],
   suggestion |-> category]

\* the chain over one exclusionary_language match without its language branch
ExclusionaryFlagsNoLanguage(match) ==
  IF MatchHas(match, {<<"v","i","s","a">>, <<"s","p","o","n","s","o","r","s","h","i","p">>, <<"e","l","i","g","i","b","l","e"," ","t","o"," ","w","o","r","k">>,
                      <<"n","o"," ","i","n","t","e","r","n","a","t","i","o","n","a","l">>, <<"c","i","t","i","z","e","n","s"," ","o","n","l","y">>, <<"n","o"," ","w","o","r","k","-","p","e","r","m","i","t">>,
                      <<"n","o"," ","o","p","t">>, <<"n","o"," ","c","p","t">>, <<"n","o","t"," ","c","o","n","s","i","d","e","r","i","n","g"," ","o","p","t">>,
                      <<"n","o","t"," ","c","o","n","s","i","d","e","r","i","n","g"," ","c","p","t">>})
    THEN <<Flag(match, "high", "Visa/Immigration Exclusion", "visa")>>
  ELSE IF MatchHas(match, {<<"l","o","c","a","l"," ","a","p","p","l","i","c","a","n","t","s"," ","o","n","l","y">>, <<"n","o"," ","r","e","l","o","c","a","t","i","o","n","s">>,
                           <<"m","u","s","t"," ","b","e"," ","l","o","c","a","l">>, <<"m","u","s","t"," ","b","e"," ","i","n"," ","n","o","r","t","h"," ","a","m","e","r","i","c","a">>,
                           <<"n","o","r","t","h"," ","a","m","e","r","i","c","a","n"," ","a","p","p","l","i","c","a","n","t","s"," ","o","n","l","y">>})
    THEN <<Flag(match, "high", "Geographic Exclusion", "geographic")>>
  ELSE <<>>

\* the if / elif / elif chain over one exclusionary_language match
ExclusionaryFlags(match) ==
  IF MatchHas(match, {<<"v","i","s","a">>, <<"s","p","o","n","s","o","r","s","h","i","p">>, <<"e","l","i","g","i","b","l","e"," ","t","o"," ","w","o","r","k">>,
                      <<"n","o"," ","i","n","t","e","r","n","a","t","i","o","n","a","l">>, <<"c","i","t","i","z","e","n","s"," ","o","n","l","y">>, <<"n","o"," ","w","o","r","k","-","p","e","r","m","i","t">>,
                      <<"n","o"," ","o","p","t">>, <<"n","o"," ","c","p","t">>, <<"n","o","t"," ","c","o","n","s","i","d","e","r","i","n","g"," ","o","p","t">>,
                      <<"n","o","t"," ","c","o","n","s","i","d","e","r","i","n","g"," ","c","p","t">>})
    THEN <<Flag(match, "high", "Visa/Immigration Exclusion", "visa")>>
  ELSE IF MatchHas(match, {<<"n","a","t","i","v","e">>, <<"e","n","g","l","i","s","h">>})
    THEN <<Flag(match, "high", "Language Discrimination",
                IF MatchHas(match, {<<"n","a","t","i","v","e">>}) THEN "native" ELSE "english-only")>>
  ELSE IF MatchHas(match, {<<"l","o","c","a","l"," ","a","p","p","l","i","c","a","n","t","s"," ","o","n","l","y">>, <<"n","o"," ","r","e","l","o","c","a","t","i","o","n","s">>,
                           <<"m","u","s","t"," ","b","e"," ","l","o","c","a","l">>, <<"m","u","s","t"," ","b","e"," ","i","n"," ","n","o","r","t","h"," ","a","m","e","r","i","c","a">>,
                           <<"n","o","r","t","h"," ","a","m","e","r","i","c","a","n"," ","a","p","p","l","i","c","a","n","t","s"," ","o","n","l","y">>})
    THEN <<Flag(match, "high", "Geographic Exclusion", "geographic")>>
  ELSE <<>>

MasculineFlags(match) ==
  LET explicit == MatchHas(match, {<<"m","a","l","e">>, <<"m","e","n">>})
  IN  <<Flag(match, IF explicit THEN "high" ELSE "medium", "Gender Discrimination",
             IF explicit THEN "explicit-gender" ELSE "masculine-coded")>>

AgeFlags(match) ==
  <<Flag(match, IF MatchHas(match, {<<"u","n","d","e","r">>}) THEN "high" ELSE "medium",
         "Age Discrimination",
         IF MatchHas(match, {<<"u","n","d","e","r">>}) THEN "explicit-age"
         ELSE IF MatchHas(match, {<<"y","o","u","n","g">>, <<"r","e","c","e","n","t"," ","g","r","a","d","u","a","t","e">>, <<"f","r","e","s","h"," ","o","u","t">>})
           THEN "age-coded"
         ELSE "age-perceived")>>

DisabilityFlags(match) ==
  <<Flag(match, "high", "Disability Discrimination",
         IF MatchHas(match, {<<"w","i","t","h","o","u","t"," ","a","c","c","o","m","m","o","d","a","t","i","o","n">>, <<"n","o"," ","a","c","c","o","m","m","o","d","a","t","i","o","n">>})
           THEN "accommodation-refusal"
         ELSE IF MatchHas(match, {<<"a","b","l","e","-","b","o","d","i","e","d">>}) THEN "able-bodied"
         ELSE IF MatchHas(match, {<<"m","u","s","t"," ","b","e"," ","a","b","l","e"," ","t","o"," ","l","i","f","t">>, <<"m","u","s","t"," ","b","e"," ","a","b","l","e"," ","t","o"," ","s","t","a","n","d">>,
                                  <<"p","h","y","s","i","c","a","l"," ","r","e","q","u","i","r","e","m","e","n","t","s">>})
           THEN "physical-requirements"
         ELSE "disability-other")>>

AppearanceFlags(match) ==
  <<Flag(match, "high", "Appearance Discrimination",
         IF MatchHas(match, {<<"n","o"," ","v","i","s","i","b","l","e">>, <<"n","o"," ","t","a","t","t","o","o","s">>, <<"n","o"," ","p","i","e","r","c","i","n","g","s">>})
           THEN "tattoos-piercings" ELSE "appearance-other")>>

CulturalFlags(match) ==
  <<Flag(match, "medium", "Cultural Fit Bias",
         IF MatchHas(match, {<<"f","i","t"," ","t","h","e"," ","c","u","l","t","u","r","e">>, <<"f","i","t"," ","o","u","r"," ","c","u","l","t","u","r","e">>, <<"c","u","l","t","u","r","a","l"," ","f","i","t">>})
           THEN "cultural-fit"
         ELSE IF MatchHas(match, {<<"w","o","r","k"," ","h","a","r","d"," ","p","l","a","y"," ","h","a","r","d">>, <<"w","o","r","k"," ","h","a","r","d",","," ","p","l","a","y"," ","h","a","r","d">>})
           THEN "work-hard-play-hard"
         ELSE IF MatchHas(match, {<<"b","e","e","r"," ","f","r","i","d","a","y","s">>, <<"a","f","t","e","r","-","w","o","r","k"," ","d","r","i","n","k","s">>})
           THEN "alcohol"
         ELSE "culture-other")>>

\* the flags the six loops offer, in the order the loops run
OfferedFlags(keyword_results) ==
  LET kr == keyword_results
      over(key, F(_)) ==
        Flatten([i \in 1..Len(kr[key].matches) |-> F(kr[key].matches[i])])
  IN  over("exclusionary_language", ExclusionaryFlags)
        \o over("masculine_coded", MasculineFlags)
        \o over("age_biased", AgeFlags)
        \o over("disability_biased", DisabilityFlags)
        \o over("appearance_biased", AppearanceFlags)
        \o over("cultural_fit", CulturalFlags)

\* red flags without the seen_flags test
RedFlagsWithoutSeen(keyword_results) ==
  OfferedFlags(keyword_results)

\* `if flag_text not in seen_flags`: a text is flagged the first time only
generate_red_flags(keyword_results) ==
  LET offered == OfferedFlags(keyword_results)
      kept == SelectSeq(Indices(offered),
                LAMBDA i : \A j \in 1..(i - 1) : offered[j].text # offered[i].text)
  IN  [k \in 1..Len(kept) |-> offered[kept[k]]]

\* ------------------------------------------------------------------------
\* Inputs
\* ------------------------------------------------------------------------

MaxFrags == 2

MaxCalls == 2

MaxMatches == 2

Fragments ==
  <<<<"N","o"," ","v","i","s","a"," ","s","p","o","n","s","o","r","s","h","i","p">>,
    <<"\n">>,
    <<"R","o","c","k","s","t","a","r">>,
    <<"y","o","u","n","g"," ","t","e","a","m">>,
    <<"N","a","t","i","v","e"," ","E","n","g","l","i","s","h"," ","s","p","e","a","k","e","r"," ","o","n","l","y">>>>

CitizensOnlyText ==
  <<"O","n","l","y"," ","U",".","S","."," ","c","i","t","i","z","e","n","s"," ","w","i","l","l"," ","b","e"," ","c","o","n","s","i","d","e","r","e","d",";"," ","n","o"," ","v","i","s","a"," ","s","p","o","n","s","o","r","s","h","i","p",".">>

NativeSpeakerText ==
  <<"N","a","t","i","v","e"," ","E","n","g","l","i","s","h"," ","s","p","e","a","k","e","r"," ","r","e","q","u","i","r","e","d",".">>

WelcomeText ==
  <<"W","e"," ","w","e","l","c","o","m","e"," ","a","p","p","l","i","c","a","n","t","s"," ","f","r","o","m"," ","a","l","l"," ","b","a","c","k","g","r","o","u","n","d","s"," ","a","n","d"," ","i","d","e","n","t","i","t","i","e","s",".">>

DensePosting ==
  <<"R","o","c","k","s","t","a","r"," ","n","i","n","j","a"," ","g","u","r","u"," ","w","a","n","t","e","d",":"," ","y","o","u","n","g"," ","t","e","a","m"," ","o","f"," ","r","e","c","e","n","t"," ","g","r","a","d","u","a","t","e","s"," ","u","n","d","e","r"," ","3","0",","," ","d","i","g","i","t","a","l"," ","n","a","t","i","v","e",".","\n","N","o"," ","v","i","s","a"," ","s","p","o","n","s","o","r","s","h","i","p",","," ","n","o"," ","O","P","T",","," ","n","o"," ","C","P","T",";"," ","U",".","S","."," ","c","i","t","i","z","e","n"," ","o","n","l","y",","," ","E","n","g","l","i","s","h"," ","o","n","l","y",","," ","n","a","t","i","v","e"," ","s","p","e","a","k","e","r"," ","o","n","l","y","."," ","M","u","s","t"," ","b","e"," ","l","o","c","a","l",".","\n","C","u","l","t","u","r","a","l"," ","f","i","t"," ","m","a","t","t","e","r","s",":"," ","w","o","r","k"," ","h","a","r","d"," ","p","l","a","y"," ","h","a","r","d",","," ","b","e","e","r"," ","f","r","i","d","a","y","s",","," ","l","i","k","e"," ","a"," ","f","a","m","i","l","y",","," ","t","e","a","m"," ","p","l","a","y","e","r",","," ","s","e","l","f","-","s","t","a","r","t","e","r",".","\n","M","u","s","t"," ","b","e"," ","a","b","l","e"," ","t","o"," ","l","i","f","t",","," ","a","b","l","e","-","b","o","d","i","e","d",","," ","n","o"," ","a","c","c","o","m","m","o","d","a","t","i","o","n","."," ","N","o"," ","t","a","t","t","o","o","s",","," ","n","o"," ","p","i","e","r","c","i","n","g","s",","," ","p","r","o","f","e","s","s","i","o","n","a","l"," ","a","p","p","e","a","r","a","n","c","e",".">>

SpacedText ==
  <<"Y","o","u","n","g"," "," ","\n","\t","T","e","a","m"," ","o","f"," ","r","o","c","k","s","t","a","r","s",";"," ","s","t","r","o","n","g","-","d","r","i","v","e",","," ","n","o"," "," ","v","i","s","a"," ","s","p","o","n","s","o","r","s","h","i","p">>

AdoptText ==
  <<"W","e"," ","a","d","o","p","t"," ","b","e","s","t"," ","p","r","a","c","t","i","c","e","s",".">>

OptLanguageText ==
  <<"N","o"," ","O","P","T",","," ","n","a","t","i","v","e"," ","s","p","e","a","k","e","r"," ","r","e","q","u","i","r","e","d",".">>

BackfillPosting ==
  <<"J","o","i","n"," ","o","u","r"," ","f","r","i","e","n","d","l","y"," ","s","u","p","p","o","r","t"," ","t","e","a","m"," ","t","o","d","a","y",".","\n","N","o"," ","v","i","s","a"," ","s","p","o","n","s","o","r","s","h","i","p"," ","i","s"," ","o","f","f","e","r","e","d"," ","h","e","r","e",".","\n","N","o"," ","v","i","s","a"," ","t","r","a","n","s","f","e","r","s"," ","a","r","e"," ","p","o","s","s","i","b","l","e"," ","a","t"," ","a","l","l",".","\n","N","o","r","t","h"," ","A","m","e","r","i","c","a","n"," ","a","p","p","l","i","c","a","n","t","s"," ","o","n","l","y",","," ","p","l","e","a","s","e",".","\n","M","u","s","t"," ","h","a","v","e"," ","u","s"," ","w","o","r","k"," ","a","u","t","h","o","r","i","z","a","t","i","o","n"," ","n","o","w",".","\n","N","o"," ","s","p","o","n","s","o","r","s","h","i","p"," ","f","o","r"," ","t","h","i","s"," ","r","o","l","e",","," ","s","o","r","r","y",".","\n","W","e"," ","v","a","l","u","e"," ","g","r","e","a","t"," ","c","u","s","t","o","m","e","r"," ","s","e","r","v","i","c","e"," ","s","k","i","l","l","s",".">>

NamedTexts ==
  {<<>>, <<" "," ","\t">>, CitizensOnlyText, NativeSpeakerText, WelcomeText, SpacedText,
   AdoptText, OptLanguageText, DensePosting, BackfillPosting}

\* the named texts and every concatenation of at most MaxFrags fragments
Texts ==
  NamedTexts \cup {Flatten([i \in DOMAIN f |-> Fragments[f[i]]]) :
                     f \in UNION {[1..k -> 1..Len(Fragments)] : k \in 0..MaxFrags}}

\* the texts of concurrent requests
ThreadTexts ==
  {<<>>, CitizensOnlyText}

\* entailment probabilities, one per candidate label
OracleProbs ==
  {<<5, 5, 5, 5, 5, 5, 90>>,
   <<95, 40, 10, 0, 30, 8, 20>>,
   <<5, 9, 3, 2, 8, 1, 9>>,
   <<30, 30, 30, 28, 30, 30, 30>>,
   <<0, 0, 10, 0, 0, 0, 0>>,
   <<60, 40, 10, 0, 30, 8, 80>>}

\* ------------------------------------------------------------------------
\* The process: the model singleton and the requests in flight
\* ------------------------------------------------------------------------

Threads == {1, 2}

NoResult == [returned |-> FALSE]

NoLoop ==
  [rounded |-> [k \in BreakdownKeySet |-> 0], diff |-> 0,
   keys_sorted |-> <<>>, idx |-> 0, guard |-> 0]

NoClassification ==
  [labels |-> <<>>, scores |-> <<>>, calibrated_scores |-> <<>>,
   error |-> "None", fallback |-> FALSE, provider |-> "None",
   sentence_insights |-> <<>>]

\* the locals of analyze_full before its first statement
NoFrame ==
  [text |-> <<>>, use_nlp |-> FALSE,
   keyword_results |-> EmptyResults,
   classifier_results |-> NoClassification,
   sentences |-> <<>>,
   bias_score |-> 0, intl_score |-> 0, inclusivity_score |-> 0,
   loop |-> NoLoop]

\* what the entailment provider does: whether loading the model and running
\* it succeed ("ok"), raise ("raises"), or do either from call to call ("flaky")
Providers ==
  {[load |-> l, infer |-> i] :
     l \in {"ok", "flaky"}, i \in {"ok", "raises", "flaky"}}
  \cup {[load |-> "raises", infer |-> "raises"]}

\* detect_bias_keywords over the input texts
KeywordAnalysisOf ==
  [x \in Texts |-> detect_bias_keywords(x)]

\* _split_sentences_with_spans(text_for_analysis) over the input texts
SentencesOf ==
  [x \in Texts |-> _split_sentences_with_spans(TextForAnalysis(x))]

\* the sentences of text_for_analysis to classify, over the input texts
SentenceCandidatesOf ==
  [x \in Texts |-> SentenceCandidates(TextForAnalysis(x))]

\* detect_international_bias_signal(text_for_analysis) over the input texts
InternationalSignalOf ==
  [x \in Texts |-> detect_international_bias_signal(TextForAnalysis(x))]

VARIABLES
  server,             \* "event_loop": one request at a time; "threads": concurrent callers
  provider,           \* the behaviour of the entailment provider
  weights,            \* the probabilities the loaded model answers with
  _classifier,        \* the cached model, or "None"
  _classifier_error,  \* the cached load error, or "None"
  constructions,      \* how many times model construction has been started
  calls,              \* how many analyze_full calls have been made
  pc,                 \* where each caller is
  frame,              \* the arguments and locals of each caller's analyze_full
  result,             \* what analyze_full returned
  first               \* what the previous call returned, when this call repeats it

vars ==
  <<server, provider, weights, _classifier, _classifier_error, constructions,
    calls, pc, frame, result, first>>

InitWith(s) ==
  /\ server = s
  /\ provider \in Providers
  /\ weights = "None"
  /\ _classifier = "None"
  /\ _classifier_error = "None"
  /\ constructions = 0
  /\ calls = 0
  /\ pc = [t \in Threads |-> "idle"]
  /\ frame = [t \in Threads |-> NoFrame]
  /\ result = [t \in Threads |-> NoResult]
  /\ first = [t \in Threads |-> NoResult]

\* main.py's async endpoints call analyze_full on the event loop
Init ==
  InitWith("event_loop")

\* callers that run analyze_full on worker threads
InitThreads ==
  InitWith("threads")

Callers ==
  IF server = "event_loop" THEN {1} ELSE Threads

InputTexts ==
  IF server = "event_loop" THEN Texts ELSE ThreadTexts

\* a keyword detection whose counts start from those of the caller's last call
EnterAccumulating(t, x, nlp, again) ==
  /\ calls < MaxCalls
  /\ calls' = calls + 1
  /\ frame' = [frame EXCEPT ![t] =
       [NoFrame EXCEPT !.text = x, !.use_nlp = nlp,
                       !.keyword_results =
                          [c \in CategorySet |->
                             [count |-> frame[t].keyword_results[c].count
                                          + KeywordAnalysisOf[x][c].count,
                              matches |-> KeywordAnalysisOf[x][c].matches]]]]
  /\ first' = [first EXCEPT ![t] = IF again THEN result[t] ELSE NoResult]
  /\ result' = [result EXCEPT ![t] = NoResult]
  /\ pc' = [pc EXCEPT ![t] = IF nlp THEN "analyze_with_classifier"
                             ELSE "keyword_inference"]
  /\ UNCHANGED <<server, provider, weights, _classifier, _classifier_error,
                 constructions>>

\* analyze_full, step 1: keyword detection
Enter(t, x, nlp, again) ==
  /\ calls < MaxCalls
  /\ calls' = calls + 1
  /\ frame' = [frame EXCEPT ![t] =
       [NoFrame EXCEPT !.text = x, !.use_nlp = nlp,
                       !.keyword_results = KeywordAnalysisOf[x]]]
  /\ first' = [first EXCEPT ![t] = IF again THEN result[t] ELSE NoResult]
  /\ result' = [result EXCEPT ![t] = NoResult]
  /\ pc' = [pc EXCEPT ![t] = IF nlp THEN "analyze_with_classifier"
                             ELSE "keyword_inference"]
  /\ UNCHANGED <<server, provider, weights, _classifier, _classifier_error,
                 constructions>>

\* a request arrives
Call(t) ==
  /\ t \in Callers
  /\ pc[t] = "idle"
  /\ \E x \in InputTexts, nlp \in BOOLEAN : Enter(t, x, nlp, FALSE)

\* the caller repeats its last request
CallAgain(t) ==
  /\ pc[t] = "done"
  /\ Enter(t, frame[t].text, frame[t].use_nlp, TRUE)

\* a step of caller t that only moves it to `to` with classification `c`
Classified(t, c, to) ==
  /\ frame' = [frame EXCEPT ![t].classifier_results = c]
  /\ pc' = [pc EXCEPT ![t] = to]
  /\ UNCHANGED <<server, provider, weights, _classifier, _classifier_error,
                 constructions, calls, result, first>>

Goto(t, to) ==
  /\ pc' = [pc EXCEPT ![t] = to]
  /\ UNCHANGED <<server, provider, weights, _classifier, _classifier_error,
                 constructions, calls, frame, result, first>>

\* analyze_full with use_nlp=False: labels inferred from the keyword counts
KeywordInference(t) ==
  /\ pc[t] = "keyword_inference"
  /\ Classified(t, KeywordClassification(frame[t].keyword_results), "score")

\* analyze_with_classifier on empty or blank text
EmptyTextReturn(t) ==
  /\ pc[t] = "analyze_with_classifier"
  /\ (frame[t].text = <<>> \/ IsBlank(frame[t].text))
  /\ Classified(t, EmptyTextClassification, "score")

\* get_classifier without the test of the cached error
GetClassifierSkipsErrorCheck(t) ==
  /\ pc[t] = "analyze_with_classifier"
  /\ ~(frame[t].text = <<>> \/ IsBlank(frame[t].text))
  /\ Goto(t, "get_classifier")

\* get_classifier: `if _classifier_error: raise _classifier_error`
GetClassifierCheckError(t) ==
  /\ pc[t] = "analyze_with_classifier"
  /\ ~(frame[t].text = <<>> \/ IsBlank(frame[t].text))
  /\ Goto(t, IF _classifier_error # "None" THEN "except" ELSE "get_classifier")

\* get_classifier: `if _classifier is None:` and the start of construction
GetClassifierCheckCache(t) ==
  /\ pc[t] = "get_classifier"
  /\ IF _classifier = "None"
       THEN /\ pc' = [pc EXCEPT ![t] = "loading"]
            /\ constructions' = constructions + 1
       ELSE /\ pc' = [pc EXCEPT ![t] = "inference"]
            /\ UNCHANGED constructions
  /\ UNCHANGED <<server, provider, weights, _classifier, _classifier_error,
                 calls, frame, result, first>>

\* get_classifier: config, tokenizer and model loaded, `_classifier = {...}`
LoadSucceeds(t) ==
  /\ pc[t] = "loading"
  /\ provider.load # "raises"
  /\ _classifier' = "hf"
  /\ IF weights = "None" THEN weights' \in OracleProbs ELSE UNCHANGED weights
  /\ pc' = [pc EXCEPT ![t] = "inference"]
  /\ UNCHANGED <<server, provider, _classifier_error, constructions, calls,
                 frame, result, first>>

\* get_classifier: the load raises, `_classifier_error = e; raise`
LoadRaises(t) ==
  /\ pc[t] = "loading"
  /\ provider.load # "ok"
  /\ _classifier_error' = "error"
  /\ pc' = [pc EXCEPT ![t] = "except"]
  /\ UNCHANGED <<server, provider, weights, _classifier, constructions, calls,
                 frame, result, first>>

\* analyze_with_classifier: the provider answers for the document and for
\* each sentence that _extract_biased_sentences classifies
Inference(t) ==
  /\ pc[t] = "inference"
  /\ provider.infer # "raises"
  /\ frame' = [frame EXCEPT
       ![t].classifier_results =
          NliClassification(weights, InternationalSignalOf[frame[t].text],
                            SentenceCandidatesOf[frame[t].text]),
       ![t].sentences = SentencesOf[frame[t].text]]
  /\ pc' = [pc EXCEPT ![t] = "score"]
  /\ UNCHANGED <<server, provider, weights, _classifier, _classifier_error,
                 constructions, calls, result, first>>

\* analyze_with_classifier: the provider raises
InferenceRaises(t) ==
  /\ pc[t] = "inference"
  /\ provider.infer # "ok"
  /\ Goto(t, "except")

\* analyze_with_classifier: `except Exception`, the keyword-inferred fallback
KeywordFallback(t) ==
  /\ pc[t] = "except"
  /\ Classified(t, FallbackClassification(KeywordAnalysisOf[frame[t].text]), "score")

\* analyze_full, step 3: the three scores, and calculate_bias_breakdown up to
\* its while loop
Score(t) ==
  /\ pc[t] = "score"
  /\ LET f    == frame[t]
         intl == calculate_international_bias_score(f.keyword_results, f.text)
     IN  frame' = [frame EXCEPT ![t] =
           [f EXCEPT
              !.bias_score =
                 calculate_bias_score(f.keyword_results, f.classifier_results),
              !.intl_score = intl,
              !.inclusivity_score =
                 calculate_inclusivity_score(f.keyword_results, f.classifier_results),
              !.loop =
                 StartReconcile(RoundedPercentages(f.keyword_results,
                                                   f.classifier_results, intl))]]
  /\ pc' = [pc EXCEPT ![t] = "reconcile"]
  /\ UNCHANGED <<server, provider, weights, _classifier, _classifier_error,
                 constructions, calls, result, first>>

\* calculate_bias_breakdown: one iteration of `while diff != 0 and guard < 500`
Reconcile(t) ==
  /\ pc[t] = "reconcile"
  /\ LoopRuns(frame[t].loop)
  /\ frame' = [frame EXCEPT ![t].loop = ReconcileIteration(@)]
  /\ UNCHANGED <<server, provider, weights, _classifier, _classifier_error,
                 constructions, calls, pc, result, first>>

\* analyze_full, step 4 and the return value
Return(t) ==
  /\ pc[t] = "reconcile"
  /\ ~LoopRuns(frame[t].loop)
  /\ result' = [result EXCEPT ![t] =
       [returned |-> TRUE,
        bias_score |-> frame[t].bias_score,
        international_student_bias_score |-> frame[t].intl_score,
        inclusivity_score |-> frame[t].inclusivity_score,
        keyword_analysis |-> frame[t].keyword_results,
        classification |-> frame[t].classifier_results,
        sentence_insights |-> frame[t].classifier_results.sentence_insights,
        bias_breakdown |-> frame[t].loop.rounded,
        red_flags |-> generate_red_flags(frame[t].keyword_results),
        breakdown |->
          [visa_requirements |-> count_visa_issues(frame[t].keyword_results),
           language_bias |-> count_language_bias(frame[t].keyword_results),
           cultural_assumptions |-> frame[t].keyword_results["cultural_fit"].count,
           gender_discrimination |-> frame[t].keyword_results["masculine_coded"].count,
           age_discrimination |-> frame[t].keyword_results["age_biased"].count,
           disability_discrimination |->
             frame[t].keyword_results["disability_biased"].count,
           appearance_discrimination |->
             frame[t].keyword_results["appearance_biased"].count,
           other_exclusionary |-> frame[t].keyword_results["masculine_coded"].count
                                    + frame[t].keyword_results["age_biased"].count],
        analysis_type |-> "real",
        nlp_used |-> ~frame[t].classifier_results.fallback]]
  /\ pc' = [pc EXCEPT ![t] = "done"]
  /\ UNCHANGED <<server, provider, weights, _classifier, _classifier_error,
                 constructions, calls, frame, first>>

Next ==
  \E t \in Threads :
    \/ Call(t)
    \/ CallAgain(t)
    \/ KeywordInference(t)
    \/ EmptyTextReturn(t)
    \/ GetClassifierCheckError(t)
    \/ GetClassifierCheckCache(t)
    \/ LoadSucceeds(t)
    \/ LoadRaises(t)
    \/ Inference(t)
    \/ InferenceRaises(t)
    \/ KeywordFallback(t)
    \/ Score(t)
    \/ Reconcile(t)
    \/ Return(t)

Spec ==
  Init /\ [][Next]_vars

SpecThreads ==
  InitThreads /\ [][Next]_vars

\* dictionary phrases a caller of generate_red_flags may list as matches
MatchPool ==
  <<<<"n","o"," ","v","i","s","a"," ","s","p","o","n","s","o","r","s","h","i","p">>,
    <<"y","o","u","n","g">>,
    <<"n","o"," ","r","e","m","o","t","e">>>>

\* the match lists of at most MaxMatches pool phrases, repeats included
MatchLists ==
  {[i \in DOMAIN f |-> MatchPool[f[i]]] :
     f \in UNION {[1..k -> 1..Len(MatchPool)] : k \in 0..MaxMatches}}

\* keyword analyses as generate_red_flags accepts them from any caller: a
\* phrase may be listed twice and under several categories
FlagAnalyses ==
  {[c \in CategorySet |->
      CASE c = "exclusionary_language" -> [count |-> Len(a), matches |-> a]
        [] c = "age_biased" -> [count |-> Len(b), matches |-> b]
        [] c = "cultural_fit" -> [count |-> Len(d), matches |-> d]
        [] OTHER -> [count |-> 0, matches |-> <<>>]] :
     a \in MatchLists, b \in MatchLists, d \in MatchLists}

\* generate_red_flags called directly on the keyword analysis at hand
GenerateRedFlags ==
  /\ server = "library"
  /\ result[1] = NoResult
  /\ result' = [result EXCEPT ![1] =
       [returned |-> FALSE,
        keyword_analysis |-> frame[1].keyword_results,
        red_flags |-> generate_red_flags(frame[1].keyword_results)]]
  /\ UNCHANGED <<server, provider, weights, _classifier, _classifier_error,
                 constructions, calls, pc, frame, first>>

\* a caller holds some keyword analysis
InitFlags ==
  /\ server = "library"
  /\ provider = [load |-> "ok", infer |-> "ok"]
  /\ weights = "None"
  /\ _classifier = "None"
  /\ _classifier_error = "None"
  /\ constructions = 0
  /\ calls = 0
  /\ pc = [t \in Threads |-> "idle"]
  /\ \E keyword_results \in FlagAnalyses :
       frame = [t \in Threads |->
                  IF t = 1 THEN [NoFrame EXCEPT !.keyword_results = keyword_results]
                  ELSE NoFrame]
  /\ result = [t \in Threads |-> NoResult]
  /\ first = [t \in Threads |-> NoResult]

SpecFlags ==
  InitFlags /\ [][GenerateRedFlags]_vars

\* ------------------------------------------------------------------------
\* Properties
\* ------------------------------------------------------------------------

Returned(t) ==
  result[t].returned

BreakdownSum(b) ==
  SumSeq([i \in 1..Len(BreakdownKeys) |-> b[BreakdownKeys[i]]])

\* C1: the bias_breakdown analyze_full returns has exactly the seven
\* categories, each an integer of at least 1, and the seven values sum to 100,
\* for every text and either use_nlp setting.
BreakdownSumsTo100 ==
  \A t \in Threads :
    Returned(t) =>
      /\ DOMAIN result[t].bias_breakdown = BreakdownKeySet
      /\ \A k \in BreakdownKeySet :
           result[t].bias_breakdown[k] \in Nat /\ result[t].bias_breakdown[k] >= 1
      /\ BreakdownSum(result[t].bias_breakdown) = 100

\* a breakdown was returned after the reconciliation loop took units away
\* from a rounding that summed to more than 100
BreakdownReconciled ==
  \E t \in Threads :
    /\ Returned(t)
    /\ frame[t].loop.guard > 0
    /\ BreakdownSum(result[t].bias_breakdown) = 100
    /\ \E k \in BreakdownKeySet : result[t].bias_breakdown[k] = 1
    /\ \E k \in BreakdownKeySet : result[t].bias_breakdown[k] > 30

\* C2: bias_score and international_student_bias_score lie in 0..100 and the
\* overall inclusivity score lies in 0.0..100.0 (0..1000 tenths), whatever
\* the text and whichever classification (NLI or fallback) was used.
ScoresInRange ==
  \A t \in Threads :
    Returned(t) =>
      /\ result[t].bias_score \in 0..100
      /\ result[t].international_student_bias_score \in 0..100
      /\ result[t].inclusivity_score.overall_inclusivity_score \in 0..1000

\* a result whose raw international score exceeded 100 and was clamped
ScoresClamped ==
  \E t \in Threads :
    /\ Returned(t)
    /\ result[t].international_student_bias_score = 100
    /\ InternationalScoreUnclamped(result[t].keyword_analysis, frame[t].text) > 100

\* C3: when the provider raises on every call, every analyze_full(text,
\* use_nlp=True) returns a result whose classification has fallback = true.
FallbackWhenProviderRaises ==
  \A t \in Threads :
    (/\ provider.load = "raises"
     /\ provider.infer = "raises"
     /\ Returned(t)
     /\ frame[t].use_nlp)
      => result[t].classification.fallback

\* C4: concurrent callers of get_classifier start the model construction at
\* most once.
ConstructedOnce ==
  constructions <= 1

\* C5: once a load has failed and its error is cached, the error stays
\* cached, no construction is started again, and every later call of
\* get_classifier raises: the caller goes to the except branch.
FailedLoadIsFinal ==
  [][_classifier_error # "None" =>
       /\ _classifier_error' = _classifier_error
       /\ constructions' = constructions
       /\ _classifier' = "None"
       /\ \A t \in Threads :
            (pc[t] = "analyze_with_classifier" /\ pc'[t] # pc[t]
               /\ ~IsBlank(frame[t].text))
              => pc'[t] = "except"]_vars

\* a second call was answered from the cached load error
CachedErrorReraised ==
  \E t \in Threads :
    /\ _classifier_error # "None"
    /\ calls >= 2
    /\ pc[t] = "except"
    /\ constructions = 1

\* the provider does the same on every call
DeterministicProvider ==
  provider.load # "flaky" /\ provider.infer # "flaky"

\* C6: with a deterministic provider, the second of two calls in sequence on
\* the same text and flag returns the same bias_score,
\* international_student_bias_score, inclusivity_score, bias_breakdown,
\* keyword_analysis and red_flags as the first.
SecondCallAgrees ==
  \A t \in Threads :
    (DeterministicProvider /\ Returned(t) /\ first[t].returned) =>
      /\ result[t].bias_score = first[t].bias_score
      /\ result[t].international_student_bias_score
           = first[t].international_student_bias_score
      /\ result[t].inclusivity_score = first[t].inclusivity_score
      /\ result[t].bias_breakdown = first[t].bias_breakdown
      /\ result[t].keyword_analysis = first[t].keyword_analysis
      /\ result[t].red_flags = first[t].red_flags

\* a repeated call that used the model the first call loaded, on a text with
\* keyword matches
RepeatedWithLoadedModel ==
  \E t \in Threads :
    /\ DeterministicProvider
    /\ Returned(t) /\ first[t].returned
    /\ frame[t].use_nlp
    /\ result[t].nlp_used
    /\ constructions = 1
    /\ result[t].bias_score > 0
    /\ result[t].red_flags # <<>>

\* C7: the text "Only U.S. citizens will be considered; no visa sponsorship."
\* gets an international_student_bias_score of at least 50.
CitizensOnlyScoresHigh ==
  \A t \in Threads :
    (Returned(t) /\ frame[t].text = CitizensOnlyText) =>
      result[t].international_student_bias_score >= 50

\* C8: the scores of every returned classification are in descending order.
LabelsDescending ==
  \A t \in Threads :
    Returned(t) =>
      \A i \in 1..(Len(result[t].classification.scores) - 1) :
        result[t].classification.scores[i] >= result[t].classification.scores[i + 1]

\* C9: the keyword analysis of every text, blank texts included, has an entry
\* with a count and a match list for each of the seven categories.
AllCategoriesPresent ==
  \A t \in Threads :
    pc[t] # "idle" =>
      /\ DOMAIN frame[t].keyword_results = CategorySet
      /\ \A c \in CategorySet :
           /\ DOMAIN frame[t].keyword_results[c] = {"count", "matches"}
           /\ frame[t].keyword_results[c].count \in Nat

\* a whitespace-only text has been analysed and every category is there
\* with count 0
BlankTextAnalysed ==
  \E t \in Threads :
    /\ Returned(t)
    /\ frame[t].text # <<>>
    /\ IsBlank(frame[t].text)
    /\ \A c \in CategorySet :
         result[t].keyword_analysis[c] = [count |-> 0, matches |-> <<>>]

\* C10: no match list of a keyword analysis holds the same phrase twice.
MatchesAreDistinct ==
  \A t \in Threads :
    pc[t] # "idle" =>
      \A c \in CategorySet :
        LET matches == frame[t].keyword_results[c].matches
        IN  \A i, j \in 1..Len(matches) : matches[i] = matches[j] => i = j

\* the analysis of a text in which a matched phrase occurs twice
RepeatedPhraseAnalysed ==
  \E t \in Threads :
    /\ pc[t] # "idle"
    /\ \E c \in CategorySet :
         \E i \in 1..Len(frame[t].keyword_results[c].matches) :
           Cardinality(Occurrences(frame[t].keyword_results[c].matches[i],
                                   JoinSplit(Lower(frame[t].text)))) >= 2

\* the positions of a caller that is inside get_classifier or the provider
ProviderPositions ==
  {"analyze_with_classifier", "get_classifier", "loading", "inference", "except"}

\* C11: analyze_full(text, use_nlp=False) never enters the classifier path
\* nor touches the model singleton, and what it returns is the
\* classification inferred from its keyword counts: it contains neutral,
\* has fallback = true and is reported with nlp_used = false.
KeywordOnlyPath ==
  \A t \in Callers :
    (pc[t] # "idle" /\ ~frame[t].use_nlp) =>
      /\ pc[t] \notin ProviderPositions
      /\ constructions = 0 /\ _classifier = "None" /\ _classifier_error = "None"
      /\ Returned(t) =>
           /\ result[t].classification
                = KeywordClassification(result[t].keyword_analysis)
           /\ \E i \in 1..Len(result[t].classification.labels) :
                result[t].classification.labels[i] = "neutral"
           /\ result[t].classification.fallback
           /\ ~result[t].nlp_used

\* a keyword-only call has returned a classification with inferred labels
\* in front of neutral
KeywordOnlyReturned ==
  \E t \in Callers :
    /\ Returned(t)
    /\ ~frame[t].use_nlp
    /\ Len(result[t].classification.labels) >= 3
    /\ result[t].classification.labels[1] # "neutral"

\* C12: "Native English speaker required." has an exclusionary_language
\* count of at least 1 and a red flag of category "Language Discrimination"
\* with severity "high".
NativeSpeakerFlagged ==
  \A t \in Callers :
    (Returned(t) /\ frame[t].text = NativeSpeakerText) =>
      /\ result[t].keyword_analysis["exclusionary_language"].count >= 1
      /\ \E i \in 1..Len(result[t].red_flags) :
           /\ result[t].red_flags[i].category = "Language Discrimination"
           /\ result[t].red_flags[i].severity = "high"

\* the analysis of "Native English speaker required." has returned its flags
NativeSpeakerAnalysed ==
  \E t \in Callers :
    /\ Returned(t)
    /\ frame[t].text = NativeSpeakerText
    /\ result[t].red_flags # <<>>

\* the result is that of a blank text, or of a text without dictionary
\* matches whose classification has neutral on top
AllNeutral(t) ==
  /\ Returned(t)
  /\ \/ IsBlank(frame[t].text)
     \/ /\ \A c \in CategorySet : result[t].keyword_analysis[c].count = 0
        /\ result[t].classification.labels[1] = "neutral"

\* C13: a blank or all-neutral text gets count 0 in every category,
\* bias_score 0, international_student_bias_score 0, overall inclusivity
\* 100.0 and a breakdown that sums to 100.
NeutralTextScoresZero ==
  \A t \in Callers :
    AllNeutral(t) =>
      /\ \A c \in CategorySet : result[t].keyword_analysis[c].count = 0
      /\ result[t].bias_score = 0
      /\ result[t].international_student_bias_score = 0
      /\ result[t].inclusivity_score.overall_inclusivity_score = 1000
      /\ BreakdownSum(result[t].bias_breakdown) = 100

\* C14: every (sentence, start, end) of _split_sentences_with_spans has
\* 0 <= start < end <= len(text), the slice text[start:end] is the sentence up
\* to the splitter's own trimming, and the spans follow one another without
\* overlap.
SpansAligned ==
  \A t \in Callers :
    LET sentences == frame[t].sentences
    IN  /\ \A i \in 1..Len(sentences) :
             /\ 0 <= sentences[i].start
             /\ sentences[i].start < sentences[i].end
             /\ sentences[i].end <= Len(frame[t].text)
             /\ Strip(SubSeq(frame[t].text, sentences[i].start + 1,
                             sentences[i].end)) = sentences[i].sentence
        /\ \A i \in 1..(Len(sentences) - 1) :
             sentences[i].end <= sentences[i + 1].start

\* a text was split into several sentences, one of them trimmed and one
\* starting after a gap left by the previous one
SeveralSentencesSplit ==
  \E t \in Callers :
    LET sentences == frame[t].sentences
    IN  /\ Len(sentences) >= 3
        /\ \E i \in 1..Len(sentences) :
             Len(sentences[i].sentence) < sentences[i].end - sentences[i].start
        /\ \E i \in 1..(Len(sentences) - 1) :
             sentences[i].end < sentences[i + 1].start

\* the result of call t came from the zero-shot provider
NliReturned(t) ==
  Returned(t) /\ result[t].classification.provider = "hf"

\* every non-neutral finding the sentences of call t's text give, in
\* document order
SentenceFindings(t) ==
  LET candidates == SentenceCandidatesOf[frame[t].text]
  IN  Flatten([k \in 1..Len(candidates) |->
                 SentenceEntry(candidates[k], weights)])

\* C15: the sentence insights are the up-to-5 highest-scoring non-neutral
\* findings of the text, listed in descending order of score.
InsightsAreTopByScore ==
  \A t \in Callers :
    NliReturned(t) =>
      LET insights == result[t].sentence_insights
          findings == SentenceFindings(t)
          included == {insights[i].start : i \in 1..Len(insights)}
      IN  /\ Len(insights) = Min(max_sentences, Len(findings))
          /\ \A i \in 1..(Len(insights) - 1) :
               insights[i].score >= insights[i + 1].score
          /\ \A k \in 1..Len(findings) :
               findings[k].start \notin included =>
                 \A i \in 1..Len(insights) :
                   findings[k].score <= insights[i].score

\* the findings of call t's text that score at least the threshold
HighFindings(t) ==
  {k \in 1..Len(SentenceFindings(t)) : SentenceFindings(t)[k].score >= threshold}

\* C16: at most 5 insights are returned, none labelled neutral, none for a
\* sentence shorter than 25 characters; every high-confidence insight comes
\* before every low-confidence one, and a low-confidence insight is returned
\* only if the text has fewer than 5 high-confidence findings.
InsightsBounded ==
  \A t \in Callers :
    NliReturned(t) =>
      LET insights == result[t].sentence_insights
      IN  /\ Len(insights) <= max_sentences
          /\ \A i \in 1..Len(insights) :
               /\ insights[i].label # "neutral"
               /\ Len(insights[i].sentence) >= min_chars
               /\ insights[i].confidence_level = "high"
                    <=> insights[i].score >= threshold
          /\ \A i, j \in 1..Len(insights) :
               (i < j /\ insights[j].score >= threshold)
                 => insights[i].score >= threshold
          /\ (\E i \in 1..Len(insights) : insights[i].score < threshold)
               => Cardinality(HighFindings(t)) < max_sentences

\* five high-confidence insights were returned for a text that also has a
\* low-confidence finding
LowFindingLeftOut ==
  \E t \in Callers :
    /\ NliReturned(t)
    /\ Len(result[t].sentence_insights) = max_sentences
    /\ Cardinality(HighFindings(t)) >= max_sentences
    /\ Cardinality(HighFindings(t)) < Len(SentenceFindings(t))

\* C17: neutral is one of the labels of every classification, and when it is
\* the top label the bias score and the inclusivity score are the ones the
\* keyword analysis alone gives, whatever the other labels score.
NeutralOnTopAddsNothing ==
  \A t \in Callers :
    Returned(t) =>
      LET classification == result[t].classification
          keyword_results == result[t].keyword_analysis
      IN  /\ \E i \in 1..Len(classification.labels) :
               classification.labels[i] = "neutral"
          /\ classification.labels[1] = "neutral" =>
               /\ result[t].bias_score =
                    calculate_bias_score(keyword_results, NoClassification)
               /\ result[t].inclusivity_score =
                    calculate_inclusivity_score(keyword_results, NoClassification)

\* the provider ranked neutral first with another label at 0.25 or more
NeutralOverStrongLabel ==
  \E t \in Callers :
    /\ NliReturned(t)
    /\ result[t].classification.labels[1] = "neutral"
    /\ result[t].classification.scores[2] >= 25
    /\ result[t].bias_score > 0

\* C18: when neutral is the top label, calculate_bias_breakdown adds no
\* classifier-derived contribution to any category, and the percentages it
\* starts reconciling are those of the keyword counts and the international
\* score alone.
NeutralOnTopLeavesBreakdown ==
  \A t \in Callers :
    LET f == frame[t]
    IN  (/\ pc[t] = "reconcile"
         /\ f.loop.guard = 0
         /\ f.classifier_results.labels[1] = "neutral") =>
          /\ \A k \in BreakdownKeySet :
               ClassifierContributions(f.classifier_results)[k] = 0
          /\ f.loop = StartReconcile(RoundedPercentages(f.keyword_results,
                                                        NoClassification,
                                                        f.intl_score))

\* a keyword analysis with a single match
UnitAnalysis(category, phrase) ==
  [EmptyResults EXCEPT ![category] = [count |-> 1, matches |-> <<phrase>>]]

\* what one match adds to the international score, without source text
VisaWeight ==
  calculate_international_bias_score(
    UnitAnalysis("exclusionary_language",
      <<"n","o"," ","v","i","s","a"," ","s","p","o","n","s","o","r","s","h","i","p">>), <<>>)

LanguageWeight ==
  calculate_international_bias_score(
    UnitAnalysis("exclusionary_language",
      <<"n","a","t","i","v","e"," ","s","p","e","a","k","e","r"," ","r","e","q","u","i","r","e","d">>), <<>>)

OptCptWeight ==
  calculate_international_bias_score(
    UnitAnalysis("exclusionary_language", <<"n","o"," ","o","p","t">>), <<>>)

CulturalWeight ==
  calculate_international_bias_score(
    UnitAnalysis("cultural_fit", <<"c","u","l","t","u","r","e"," ","f","i","t">>), <<>>)

AgeWeight ==
  calculate_international_bias_score(
    UnitAnalysis("age_biased", <<"y","o","u","n","g"," ","t","e","a","m">>), <<>>)

\* the international score of call t is the clamped sum of its match counts
\* times the per-match weights, plus what the source text alone gives
ScoreIsWeightedSum(t) ==
  LET keyword_results == result[t].keyword_analysis
  IN  result[t].international_student_bias_score =
        Min(100,
            count_visa_issues(keyword_results) * VisaWeight
              + count_language_bias(keyword_results) * LanguageWeight
              + count_opt_cpt(keyword_results) * OptCptWeight
              + keyword_results["cultural_fit"].count * CulturalWeight
              + keyword_results["age_biased"].count * AgeWeight
              + calculate_international_bias_score(EmptyResults, frame[t].text))

\* C19 as stated: in calculate_international_bias_score a visa/sponsorship
\* match weighs more than a language-fluency match, which weighs more than an
\* OPT/CPT match, which weighs more than a cultural-fit match or an age match.
WeightsOrderedAsListed ==
  \A t \in Callers :
    Returned(t) =>
      /\ ScoreIsWeightedSum(t)
      /\ VisaWeight > LanguageWeight
      /\ LanguageWeight > OptCptWeight
      /\ OptCptWeight > CulturalWeight
      /\ OptCptWeight > AgeWeight

\* C19, amended: a visa/sponsorship match weighs more than an OPT/CPT match,
\* which weighs more than a language-fluency match, which weighs more than a
\* cultural-fit match or an age match.
WeightsOrderedAsCoded ==
  \A t \in Callers :
    Returned(t) =>
      /\ ScoreIsWeightedSum(t)
      /\ VisaWeight > OptCptWeight
      /\ OptCptWeight > LanguageWeight
      /\ LanguageWeight > CulturalWeight
      /\ LanguageWeight > AgeWeight

\* a posting with an OPT match and a language match was scored below the cap
OptAndLanguageScored ==
  \E t \in Callers :
    /\ Returned(t)
    /\ count_opt_cpt(result[t].keyword_analysis) >= 1
    /\ count_language_bias(result[t].keyword_analysis) >= 1
    /\ result[t].international_student_bias_score < 100
    /\ result[t].international_student_bias_score > 0

\* C20: the overall inclusivity computed with the classification is never
\* above the keyword-only value and at most 20 points below it, and it is
\* below only when the top label is not neutral and has confidence 0.25 or
\* more.
ClassifierOnlyLowersInclusivity ==
  \A t \in Callers :
    Returned(t) =>
      LET classification == result[t].classification
          with_classifier == result[t].inclusivity_score.overall_inclusivity_score
          keyword_only ==
            calculate_inclusivity_score(result[t].keyword_analysis,
                                        NoClassification).overall_inclusivity_score
      IN  /\ with_classifier <= keyword_only
          /\ keyword_only - with_classifier <= 200
          /\ with_classifier < keyword_only =>
               /\ classification.labels[1] # "neutral"
               /\ TopScore(classification) >= 25

\* a confident non-neutral top label took more than 15 points off
LargeDeductionApplied ==
  \E t \in Callers :
    /\ NliReturned(t)
    /\ result[t].classification.labels[1] # "neutral"
    /\ calculate_inclusivity_score(result[t].keyword_analysis,
                                   NoClassification).overall_inclusivity_score
         - result[t].inclusivity_score.overall_inclusivity_score > 150

\* the heuristic boost of the sentence an insight of call t is about
InsightSignal(t, insight) ==
  LET candidates == SentenceCandidatesOf[frame[t].text]
      k == CHOOSE k \in 1..Len(candidates) : candidates[k].start = insight.start
  IN  candidates[k].signal

\* C21: an insight for a sentence whose heuristic boost is at least 0.05 is
\* labelled intl-bias, also when another label scored higher than intl-bias
\* after the boost was added.
BoostedSentenceIsIntl ==
  \A t \in Callers :
    NliReturned(t) =>
      \A i \in 1..Len(result[t].sentence_insights) :
        LET insight == result[t].sentence_insights[i]
        IN  InsightSignal(t, insight) >= 5 => insight.label = "intl-bias"

\* another bias label scored highest for a boosted sentence, above intl-bias
\* with its boost, and the insight says intl-bias
BoostedSentenceOutscored ==
  \E t \in Callers :
    /\ NliReturned(t)
    /\ \E i \in 1..Len(result[t].sentence_insights) :
         LET insight == result[t].sentence_insights[i]
             intl_idx == CHOOSE j \in 1..Len(candidate_labels) :
                           candidate_labels[j] = "intl-bias"
         IN  /\ InsightSignal(t, insight) >= 5
             /\ insight.label = "intl-bias"
             /\ \E j \in 1..Len(candidate_labels) :
                  /\ candidate_labels[j] \notin {"intl-bias", "neutral"}
                  /\ weights[j] > weights[intl_idx] + InsightSignal(t, insight)
                  /\ \A l \in 1..Len(candidate_labels) : weights[l] <= weights[j]

\* C22: at document granularity the boost, a value in 0..0.35, is added to
\* the intl-bias probability, which stays at most 1; the ranking is sorted
\* again afterwards, and with a boost of at least 0.05 the top label is
\* intl-bias even when another label scored higher.
BoostedDocumentIsIntl ==
  \A t \in Callers :
    NliReturned(t) =>
      LET classification == result[t].classification
          signal == InternationalSignalOf[frame[t].text]
          intl_idx == CHOOSE j \in 1..Len(candidate_labels) :
                        candidate_labels[j] = "intl-bias"
          rank == CHOOSE i \in 1..Len(classification.labels) :
                    classification.labels[i] = "intl-bias"
      IN  /\ signal >= 0 /\ signal <= 35
          /\ classification.scores[rank] = Min(100, weights[intl_idx] + signal)
          /\ \A i \in 1..(Len(classification.scores) - 1) :
               classification.scores[i] >= classification.scores[i + 1]
          /\ signal >= 5 => classification.labels[1] = "intl-bias"

\* generate_red_flags has answered a direct call
Flagged ==
  "red_flags" \in DOMAIN result[1]

\* C23: the list generate_red_flags returns has no two flags with the same
\* text, also when a phrase is matched twice or under several categories.
FlagTextsDistinct ==
  Flagged =>
    \A i, j \in 1..Len(result[1].red_flags) :
      result[1].red_flags[i].text = result[1].red_flags[j].text => i = j

\* a phrase listed under two flagged categories got its flag once
PhraseUnderTwoCategories ==
  /\ Flagged
  /\ \E i \in 1..Len(result[1].keyword_analysis["age_biased"].matches),
        j \in 1..Len(result[1].keyword_analysis["cultural_fit"].matches) :
       /\ result[1].keyword_analysis["age_biased"].matches[i]
            = result[1].keyword_analysis["cultural_fit"].matches[j]
       /\ Cardinality({k \in 1..Len(result[1].red_flags) :
                         result[1].red_flags[k].text
                           = result[1].keyword_analysis["age_biased"].matches[i]}) = 1

\* C24: every keyword match of every category has a red flag whose text is
\* the matched phrase, with a severity, a category label, an explanation
\* quoting the phrase and a suggestion.
EveryMatchFlagged ==
  \A t \in Callers :
    Returned(t) =>
      \A c \in CategorySet :
        \A i \in 1..Len(result[t].keyword_analysis[c].matches) :
          \E k \in 1..Len(result[t].red_flags) :
            LET flag == result[t].red_flags[k]
            IN  /\ flag.text = result[t].keyword_analysis[c].matches[i]
                /\ flag.explanation.phrase = flag.text
                /\ flag.severity \in {"high", "medium"}
                /\ {"category", "suggestion"} \subseteq DOMAIN flag

\* min(count x weight, 30) for one category of call t's keyword analysis
CappedPoints(t, category, weight) ==
  Min(result[t].keyword_analysis[category].count * weight, 30)

\* int(confidence x label_weight) for a non-neutral top label with confidence
\* at least 0.25, else 0
TopLabelPoints(t) ==
  LET classification == result[t].classification
      confidence == IF classification.calibrated_scores # <<>>
                      THEN classification.calibrated_scores[1]
                      ELSE classification.scores[1]
      label_weight == IF classification.labels[1] \in DOMAIN label_weights
                        THEN label_weights[classification.labels[1]] ELSE 12
  IN  IF classification.labels[1] # "neutral" /\ confidence >= 25
        THEN (confidence * label_weight) \div 100
        ELSE 0

\* C25: bias_score is min(100, the seven capped category terms plus the
\* classifier contribution); no category adds more than 30 points and one more
\* match in a category never lowers the score.
BiasScoreIsCappedSum ==
  \A t \in Callers :
    Returned(t) =>
      /\ result[t].bias_score =
           Min(100, CappedPoints(t, "exclusionary_language", 15)
                      + CappedPoints(t, "masculine_coded", 10)
                      + CappedPoints(t, "feminine_coded", 8)
                      + CappedPoints(t, "age_biased", 12)
                      + CappedPoints(t, "cultural_fit", 6)
                      + CappedPoints(t, "disability_biased", 14)
                      + CappedPoints(t, "appearance_biased", 12)
                      + TopLabelPoints(t))
      /\ \A c \in CategorySet :
           /\ calculate_bias_score(
                [result[t].keyword_analysis EXCEPT ![c].count = 100],
                result[t].classification)
                <= calculate_bias_score(
                     [result[t].keyword_analysis EXCEPT ![c].count = 0],
                     result[t].classification) + 30
           /\ calculate_bias_score(
                [result[t].keyword_analysis EXCEPT ![c].count = @ + 1],
                result[t].classification) >= result[t].bias_score

\* a category reached its cap, the classifier added points, and the total
\* stayed below 100
CategoryCapReached ==
  \E t \in Callers :
    /\ Returned(t)
    /\ result[t].keyword_analysis["exclusionary_language"].count * 15 > 30
    /\ TopLabelPoints(t) > 0
    /\ result[t].bias_score < 100

RECURSIVE Reconciled(_)

\* the percentages the while loop of calculate_bias_breakdown ends with
Reconciled(loop) ==
  IF LoopRuns(loop) THEN Reconciled(ReconcileIteration(loop)) ELSE loop.rounded

\* what analyze_full(text, use_nlp=False) computes from a keyword analysis
KeywordOnlyResult(keyword_results, text) ==
  LET classification == KeywordClassification(keyword_results)
  IN  [classification |-> classification,
       bias_score |-> calculate_bias_score(keyword_results, classification),
       inclusivity_score |->
         calculate_inclusivity_score(keyword_results, classification),
       bias_breakdown |->
         Reconciled(StartReconcile(RoundedPercentages(
           keyword_results, classification,
           calculate_international_bias_score(keyword_results, text))))]

\* the provider failed during call t on a non-empty text
FallbackReturned(t) ==
  /\ Returned(t)
  /\ frame[t].use_nlp
  /\ result[t].classification.provider = "keyword_fallback"

\* C26: when the provider fails on a non-empty text, analyze_full with
\* use_nlp=True returns the classification labels and scores, bias_score,
\* inclusivity_score and bias_breakdown that use_nlp=False returns for the
\* same text.
FallbackEqualsKeywordOnly ==
  \A t \in Callers :
    FallbackReturned(t) =>
      LET expected == KeywordOnlyResult(result[t].keyword_analysis, frame[t].text)
      IN  /\ result[t].classification.labels = expected.classification.labels
          /\ result[t].classification.scores = expected.classification.scores
          /\ result[t].bias_score = expected.bias_score
          /\ result[t].inclusivity_score = expected.inclusivity_score
          /\ result[t].bias_breakdown = expected.bias_breakdown

\* C27: the reconciliation loop of calculate_bias_breakdown ends because the
\* rounding difference has reached 0, never because guard reached 500.
LoopExitsOnZeroDiff ==
  \A t \in Callers :
    /\ frame[t].loop.guard < guard_limit
    /\ (pc[t] = "done" \/ (pc[t] = "reconcile" /\ ~LoopRuns(frame[t].loop)))
         => frame[t].loop.diff = 0

\* a loop ended after nine or more iterations
LongReconciliation ==
  \E t \in Callers :
    /\ pc[t] = "done"
    /\ frame[t].loop.guard >= 9
    /\ frame[t].loop.diff = 0

\* C28: the reconciliation loop moves one unit at a time, and a unit taken
\* away while the rounded sum exceeds 100 comes from the category whose value
\* is the largest at that step.
UnitsTakenFromLargest ==
  [][\A t \in Callers :
       (pc[t] = "reconcile" /\ pc'[t] = "reconcile") =>
         LET before == frame[t].loop.rounded
             after  == frame'[t].loop.rounded
         IN  /\ Cardinality({k \in BreakdownKeySet : after[k] # before[k]}) <= 1
             /\ \A k \in BreakdownKeySet :
                  /\ after[k] - before[k] \in {-1, 0, 1}
                  /\ after[k] < before[k] =>
                       /\ frame[t].loop.diff > 0
                       /\ \A j \in BreakdownKeySet : before[j] <= before[k]]_vars

\* C29: in every category the count detect_bias_keywords returns is the
\* length of the matches list and the number of distinct phrases in it, so a
\* text that says a phrase twice is counted like the text that says it once.
CountIsDistinctPhrases ==
  \A t \in Callers :
    pc[t] # "idle" =>
      /\ \A c \in CategorySet :
           LET found == frame[t].keyword_results[c]
           IN  /\ found.count = Len(found.matches)
               /\ found.count =
                    Cardinality({found.matches[i] : i \in 1..Len(found.matches)})
      /\ \A k \in 1..Len(Fragments) :
           (/\ \E i \in 1..Len(Fragments[k]) : Fragments[k][i] = " "
            /\ frame[t].text = Fragments[k] \o Fragments[k])
             => frame[t].keyword_results = KeywordAnalysisOf[Fragments[k]]

\* a text that says a fragment with matched phrases twice was analysed
FragmentSaidTwice ==
  \E t \in Callers :
    /\ pc[t] # "idle"
    /\ \E k \in 1..Len(Fragments) :
         /\ \E i \in 1..Len(Fragments[k]) : Fragments[k][i] = " "
         /\ frame[t].text = Fragments[k] \o Fragments[k]
         /\ frame[t].keyword_results["exclusionary_language"].count >= 2

\* C30: under any interleaving of concurrent get_classifier calls, at most
\* one of the cached model and the cached load error is set, so that no call
\* finds a load error to raise once a model is cached.
ModelOrErrorNotBoth ==
  ~(_classifier # "None" /\ _classifier_error # "None")

====
